---- MODULE Spec2Model ----
(***************************************************************************)
(* Agent dispatch and tool-result normalization of the LLM query routing   *)
(* server: the session-injecting tool node and the dispatch graph          *)
(* (core/dep.py), the tool-call extractor and the result normalizer        *)
(* (core/parse_tool.py) and the dispatch route (api/routes/mcp_router.py). *)
(*                                                                         *)
(* Python values that can be of several types are tagged records of one    *)
(* shape, PyVal; text that the code inspects character by character is a   *)
(* sequence of one-character strings; opaque identifiers and tool names    *)
(* are strings, with None standing for Python's None.                      *)
(***************************************************************************)
EXTENDS Integers, Sequences, FiniteSets, TLC

VARIABLES
    pc,              \* position of the running operation
    messages,        \* the turn sequence: graph state / input of the tool node
    config,          \* config["configurable"]["session_id"] as handed to the node
    wrapped_runs,    \* how many times ToolNode.ainvoke (the wrapped step) ran
    wrapped_input,   \* the turn sequence the wrapped step was last run on
    node_output,     \* the tool-result turns the wrapped step returned
    raised,          \* the operation ended by raising
    request,         \* the caller's request body of /dispatch
    response,        \* the QueryResponse of /dispatch
    tool_metadata,   \* the summary parse_tool_from_messages returned
    normalized,      \* what _deserialize_tool_content returned
    tool_value,      \* the value a tool backend encodes as its result
    _store,          \* history_store._store: session id -> stored turn sequence
    persisted,       \* the persist_history calls made so far, oldest first
    loaded,          \* the last get_history call: its argument and its result
    catalog,         \* the tools handed to SessionInjectingToolNode.__init__
    requiring_names, \* self.tools_requiring_session_id, as __init__ leaves it
    emitted,         \* the lines AgentRunner.arun has yielded, oldest first
    model_calls      \* the number of times the model was invoked

vars ==
    <<pc, messages, config, wrapped_runs, wrapped_input, node_output, raised,
      request, response, tool_metadata, normalized, tool_value, _store, persisted, loaded,
      catalog, requiring_names, emitted, model_calls>>

(***************************************************************************)
(* Bounds of the model.                                                    *)
(***************************************************************************)
MaxInvokes == 2

(***************************************************************************)
(* Python values.                                                          *)
(***************************************************************************)
None == "<None>"

PyNone == [t |-> "none", s |-> <<>>, keys |-> <<>>, kids |-> <<>>]

PyStr(cs) == [t |-> "str", s |-> cs, keys |-> <<>>, kids |-> <<>>]

PyInt(ds) == [t |-> "int", s |-> ds, keys |-> <<>>, kids |-> <<>>]

PyBool(b) == [t |-> "bool", s |-> <<b>>, keys |-> <<>>, kids |-> <<>>]

PyList(vs) == [t |-> "list", s |-> <<>>, keys |-> <<>>, kids |-> vs]

PyDict(ks, vs) == [t |-> "dict", s |-> <<>>, keys |-> ks, kids |-> vs]

EmptyDict == PyDict(<<>>, <<>>)

\* bool(v) of Python
Truthy(v) ==
    CASE v.t = "none" -> FALSE
      [] v.t = "str" -> v.s # <<>>
      [] v.t = "int" -> \E i \in 1..Len(v.s) : v.s[i] \notin {"0", "-"}
      [] v.t = "bool" -> v.s = <<"t">>
      [] v.t = "list" -> v.kids # <<>>
      [] OTHER -> v.keys # <<>>

\* bool(x) of an optional identifier or name
TruthyId(x) == x # None /\ x # ""

HasKey(d, k) == \E i \in 1..Len(d.keys) : d.keys[i] = k

KeyIndex(d, k) == CHOOSE i \in 1..Len(d.keys) : d.keys[i] = k

\* d[k]
DictGet(d, k) == d.kids[KeyIndex(d, k)]

\* d[k] = v: an existing key keeps its place, a new key goes last
DictSet(d, k, v) ==
    IF HasKey(d, k)
    THEN PyDict(d.keys, [d.kids EXCEPT ![KeyIndex(d, k)] = v])
    ELSE PyDict(Append(d.keys, k), Append(d.kids, v))

Rep(c, n) == [i \in 1..n |-> c]

(***************************************************************************)
(* Text helpers (str methods of Python on sequences of characters).        *)
(***************************************************************************)
StartsWith(s, p) == Len(s) >= Len(p) /\ SubSeq(s, 1, Len(p)) = p

Drop(s, n) == SubSeq(s, n + 1, Len(s))

\* s.replace(p, ""): every non-overlapping occurrence, left to right
RECURSIVE Remove(_, _)
Remove(s, p) ==
    IF s = <<>> THEN <<>>
    ELSE IF StartsWith(s, p) THEN Remove(Drop(s, Len(p)), p)
    ELSE <<Head(s)>> \o Remove(Tail(s), p)

RECURSIVE LStrip(_, _)
LStrip(s, cs) ==
    IF s # <<>> /\ Head(s) \in cs THEN LStrip(Tail(s), cs) ELSE s

RECURSIVE RStrip(_, _)
RStrip(s, cs) ==
    IF s # <<>> /\ s[Len(s)] \in cs THEN RStrip(SubSeq(s, 1, Len(s) - 1), cs) ELSE s

\* s.strip(cs)
Strip(s, cs) == RStrip(LStrip(s, cs), cs)

(***************************************************************************)
(* uuid.UUID(text) and str(uuid) of the standard library, as used by the   *)
(* session id check of SessionInjectingToolNode.ainvoke.  The texts of     *)
(* the model are made of hex digits, '-', '{', '}', ':' and letters; the   *)
(* sign, underscore and blank forms that int(text, 16) also accepts are    *)
(* not among them.                                                         *)
(***************************************************************************)
LowerHex == {"0", "1", "2", "3", "4", "5", "6", "7", "8", "9", "a", "b", "c", "d", "e", "f"}

UpperHex == {"A", "B", "C", "D", "E", "F"}

ToLowerHex(c) ==
    CASE c = "A" -> "a" [] c = "B" -> "b" [] c = "C" -> "c"
      [] c = "D" -> "d" [] c = "E" -> "e" [] c = "F" -> "f"
      [] OTHER -> c

\* the digits uuid.UUID(text) is left with before int(hex, 16)
UuidHexOf(text) ==
    Remove(Strip(Remove(Remove(text, <<"u", "r", "n", ":">>), <<"u", "u", "i", "d", ":">>),
                 {"{", "}"}),
           <<"-">>)

\* uuid.UUID(text) returns (TRUE) or raises ValueError (FALSE)
UuidParses(text) ==
    LET hex == UuidHexOf(text)
    IN  /\ Len(hex) = 32
        /\ \A i \in 1..Len(hex) : hex[i] \in LowerHex \cup UpperHex

\* str(uuid.UUID(text)): lower case, grouped 8-4-4-4-12
UuidStr(text) ==
    LET hex == UuidHexOf(text)
        low == [i \in 1..Len(hex) |-> ToLowerHex(hex[i])]
    IN  SubSeq(low, 1, 8) \o <<"-">> \o SubSeq(low, 9, 12) \o <<"-">>
        \o SubSeq(low, 13, 16) \o <<"-">> \o SubSeq(low, 17, 20) \o <<"-">>
        \o SubSeq(low, 21, 32)

\* str(v) of a value that is None or a str
PyStrOf(v) == IF v.t = "none" THEN <<"N", "o", "n", "e">> ELSE v.s

(***************************************************************************)
(* json.loads of the standard library on a text: a recursive-descent       *)
(* reading of one JSON value, with blanks allowed around it.  A result is  *)
(* [ok, val, rest]; ok = FALSE stands for json.JSONDecodeError.  The       *)
(* texts of the model carry no \u escape.                                  *)
(***************************************************************************)
JsonWs == {" ", "\n", "\t", "\r"}

Digits == {"0", "1", "2", "3", "4", "5", "6", "7", "8", "9"}

JsonFail == [ok |-> FALSE, val |-> PyNone, rest |-> <<>>]

JsonOk(v, rest) == [ok |-> TRUE, val |-> v, rest |-> rest]

PyFloat(cs) == [t |-> "float", s |-> cs, keys |-> <<>>, kids |-> <<>>]

SkipWs(s) == LStrip(s, JsonWs)

\* the length of the longest prefix of s made of characters of cs
RECURSIVE RunLen(_, _)
RunLen(s, cs) == IF s # <<>> /\ Head(s) \in cs THEN 1 + RunLen(Tail(s), cs) ELSE 0

\* the body of a string, after its opening quote
RECURSIVE JsonStringBody(_, _)
JsonStringBody(s, acc) ==
    IF s = <<>> THEN JsonFail
    ELSE IF Head(s) = "\"" THEN JsonOk(PyStr(acc), Tail(s))
    ELSE IF Head(s) = "\\"
         THEN IF Len(s) < 2 THEN JsonFail
              ELSE IF s[2] \in {"\"", "\\", "/"}
                   THEN JsonStringBody(Drop(s, 2), Append(acc, s[2]))
              ELSE IF s[2] = "n" THEN JsonStringBody(Drop(s, 2), Append(acc, "\n"))
              ELSE IF s[2] = "t" THEN JsonStringBody(Drop(s, 2), Append(acc, "\t"))
              ELSE IF s[2] = "r" THEN JsonStringBody(Drop(s, 2), Append(acc, "\r"))
              ELSE JsonFail
    ELSE IF Head(s) \in {"\n", "\t", "\r"} THEN JsonFail
    ELSE JsonStringBody(Tail(s), Append(acc, Head(s)))

\* -?(0|[1-9][0-9]*)(\.[0-9]+)?([eE][+-]?[0-9]+)? at the start of s
JsonNumber(s) ==
    LET neg == s # <<>> /\ Head(s) = "-"
        s1 == IF neg THEN Tail(s) ELSE s
        nInt == IF s1 # <<>> /\ Head(s1) = "0" THEN 1 ELSE RunLen(s1, Digits)
        s2 == Drop(s1, nInt)
        nFrac == IF s2 # <<>> /\ Head(s2) = "." /\ RunLen(Tail(s2), Digits) > 0
                 THEN 1 + RunLen(Tail(s2), Digits) ELSE 0
        s3 == Drop(s2, nFrac)
        sgn == IF Len(s3) >= 2 /\ s3[2] \in {"+", "-"} THEN 1 ELSE 0
        nExp == IF s3 # <<>> /\ Head(s3) \in {"e", "E"} /\ RunLen(Drop(s3, 1 + sgn), Digits) > 0
                THEN 1 + sgn + RunLen(Drop(s3, 1 + sgn), Digits) ELSE 0
        intText == SubSeq(s1, 1, nInt)
        text == SubSeq(s, 1, (IF neg THEN 1 ELSE 0) + nInt + nFrac + nExp)
    IN  IF nInt = 0 THEN JsonFail
        ELSE IF nFrac = 0 /\ nExp = 0
             THEN JsonOk(PyInt(IF neg /\ intText # <<"0">> THEN <<"-">> \o intText ELSE intText),
                         s2)
        ELSE JsonOk(PyFloat(text), Drop(s3, nExp))

JsonLiterals ==
    << <<<<"n", "u", "l", "l">>, PyNone>>,
       <<<<"t", "r", "u", "e">>, PyBool("t")>>,
       <<<<"f", "a", "l", "s", "e">>, PyBool("f")>>,
       <<<<"N", "a", "N">>, PyFloat(<<"N", "a", "N">>)>>,
       <<<<"I", "n", "f", "i", "n", "i", "t", "y">>,
         PyFloat(<<"I", "n", "f", "i", "n", "i", "t", "y">>)>>,
       <<<<"-", "I", "n", "f", "i", "n", "i", "t", "y">>,
         PyFloat(<<"-", "I", "n", "f", "i", "n", "i", "t", "y">>)>> >>

RECURSIVE JsonValue(_)
RECURSIVE JsonArrayItems(_, _)
RECURSIVE JsonObjectItems(_, _)

\* the values of an array, s at the start of a value
JsonArrayItems(s, acc) ==
    LET v == JsonValue(s)
        r == SkipWs(v.rest)
    IN  IF ~v.ok \/ r = <<>> THEN JsonFail
        ELSE IF Head(r) = "," THEN JsonArrayItems(SkipWs(Tail(r)), Append(acc, v.val))
        ELSE IF Head(r) = "]" THEN JsonOk(PyList(Append(acc, v.val)), Tail(r))
        ELSE JsonFail

\* the members of an object, s at the start of a key
JsonObjectItems(s, acc) ==
    IF s = <<>> \/ Head(s) # "\"" THEN JsonFail
    ELSE LET k == JsonStringBody(Tail(s), <<>>)
             c == SkipWs(k.rest)
         IN  IF ~k.ok \/ c = <<>> \/ Head(c) # ":" THEN JsonFail
             ELSE LET v == JsonValue(SkipWs(Tail(c)))
                      r == SkipWs(v.rest)
                  IN  IF ~v.ok \/ r = <<>> THEN JsonFail
                      ELSE IF Head(r) = ","
                           THEN JsonObjectItems(SkipWs(Tail(r)), DictSet(acc, k.val.s, v.val))
                      ELSE IF Head(r) = "}"
                           THEN JsonOk(DictSet(acc, k.val.s, v.val), Tail(r))
                      ELSE JsonFail

\* one value at the start of s
JsonValue(s) ==
    IF s = <<>> THEN JsonFail
    ELSE IF Head(s) = "\"" THEN JsonStringBody(Tail(s), <<>>)
    ELSE IF Head(s) = "{"
         THEN IF SkipWs(Tail(s)) # <<>> /\ Head(SkipWs(Tail(s))) = "}"
              THEN JsonOk(EmptyDict, Tail(SkipWs(Tail(s))))
              ELSE JsonObjectItems(SkipWs(Tail(s)), EmptyDict)
    ELSE IF Head(s) = "["
         THEN IF SkipWs(Tail(s)) # <<>> /\ Head(SkipWs(Tail(s))) = "]"
              THEN JsonOk(PyList(<<>>), Tail(SkipWs(Tail(s))))
              ELSE JsonArrayItems(SkipWs(Tail(s)), <<>>)
    ELSE IF \E i \in 1..Len(JsonLiterals) : StartsWith(s, JsonLiterals[i][1])
         THEN LET i == CHOOSE j \in 1..Len(JsonLiterals) : StartsWith(s, JsonLiterals[j][1])
              IN  JsonOk(JsonLiterals[i][2], Drop(s, Len(JsonLiterals[i][1])))
    ELSE JsonNumber(s)

\* json.loads(text): [ok, val]; ok = FALSE when it raises JSONDecodeError
json_loads(text) ==
    LET v == JsonValue(SkipWs(text))
    IN  IF v.ok /\ SkipWs(v.rest) = <<>> THEN [ok |-> TRUE, val |-> v.val]
        ELSE [ok |-> FALSE, val |-> PyNone]

(***************************************************************************)
(* The Result Normalizer (core/parse_tool.py).                             *)
(***************************************************************************)
\* U+2028 LINE SEPARATOR, one of the characters str.splitlines() breaks at
\* and str.strip() strips, and that json.dumps(ensure_ascii=False) writes as is
LineSeparator == "<u2028>"

LineBreaks == {"\n", "\r", LineSeparator}

\* the characters str.strip() removes
PyWs == JsonWs \cup {LineSeparator}

\* text.splitlines()
RECURSIVE SplitLines(_, _)
SplitLines(s, cur) ==
    IF s = <<>> THEN (IF cur = <<>> THEN <<>> ELSE <<cur>>)
    ELSE IF Head(s) \in LineBreaks
         THEN <<cur>> \o SplitLines(IF Head(s) = "\r" /\ Len(s) >= 2 /\ s[2] = "\n"
                                    THEN Drop(s, 2) ELSE Tail(s), <<>>)
    ELSE SplitLines(Tail(s), Append(cur, Head(s)))

\* "\n".join(lines)
RECURSIVE JoinLines(_)
JoinLines(lines) ==
    IF lines = <<>> THEN <<>>
    ELSE IF Len(lines) = 1 THEN lines[1]
    ELSE lines[1] \o <<"\n">> \o JoinLines(Tail(lines))

\* the grave accent, which a string of this notation cannot hold
Backtick == "<backtick>"

Fence == <<Backtick, Backtick, Backtick>>

_strip_code_fences(text) ==
    LET stripped == Strip(text, PyWs)
    IN  IF ~StartsWith(stripped, Fence) THEN stripped
        ELSE LET lines0 == SplitLines(stripped, <<>>)
                 lines1 == IF lines0 # <<>> /\ StartsWith(lines0[1], Fence)
                           THEN Tail(lines0) ELSE lines0
                 lines2 == IF lines1 # <<>> /\ StartsWith(lines1[Len(lines1)], Fence)
                           THEN SubSeq(lines1, 1, Len(lines1) - 1) ELSE lines1
             IN  Strip(JoinLines(lines2), PyWs)

\* text.find(c) and text.rfind(c), 1-based, 0 when c is not in text
Find(text, c) ==
    IF \E i \in 1..Len(text) : text[i] = c
    THEN CHOOSE i \in 1..Len(text) : text[i] = c /\ \A j \in 1..(i - 1) : text[j] # c
    ELSE 0

RFind(text, c) ==
    IF \E i \in 1..Len(text) : text[i] = c
    THEN CHOOSE i \in 1..Len(text) : text[i] = c /\ \A j \in (i + 1)..Len(text) : text[j] # c
    ELSE 0

\* the span from the first start_char to the last end_char; <<>> for None
_extract_span(text, start_char, end_char) ==
    LET start == Find(text, start_char)
        end == RFind(text, end_char)
    IN  IF start = 0 \/ end = 0 \/ end <= start THEN <<>>
        ELSE SubSeq(text, start, end)

\* a variant that tries the spans before the whole text
CandidatesSpansFirst(text) ==
    LET object_span == _extract_span(text, "{", "}")
        array_span == _extract_span(text, "[", "]")
    IN  (IF object_span # <<>> THEN <<object_span>> ELSE <<>>)
        \o (IF array_span # <<>> THEN <<array_span>> ELSE <<>>) \o <<text>>

\* a variant that tries the array span before the object span
CandidatesArrayFirst(text) ==
    LET object_span == _extract_span(text, "{", "}")
        array_span == _extract_span(text, "[", "]")
    IN  <<text>> \o (IF array_span # <<>> THEN <<array_span>> ELSE <<>>)
                 \o (IF object_span # <<>> THEN <<object_span>> ELSE <<>>)

_candidate_json_strings(text) ==
    LET object_span == _extract_span(text, "{", "}")
        array_span == _extract_span(text, "[", "]")
    IN  <<text>> \o (IF object_span # <<>> THEN <<object_span>> ELSE <<>>)
                 \o (IF array_span # <<>> THEN <<array_span>> ELSE <<>>)

\* what json.loads gives for each candidate; an empty candidate is skipped
Decodings(cands) ==
    [i \in 1..Len(cands) |->
        IF cands[i] = <<>> THEN [ok |-> FALSE, val |-> PyNone] ELSE json_loads(cands[i])]

\* the value of the first candidate that decodes; PyNone when none does
FirstDecoded(decodings) ==
    IF \E i \in 1..Len(decodings) : decodings[i].ok
    THEN decodings[CHOOSE i \in 1..Len(decodings) :
                      decodings[i].ok /\ \A j \in 1..(i - 1) : ~decodings[j].ok].val
    ELSE PyNone

_loads_json_string(raw) ==
    IF raw = <<>> THEN PyNone
    ELSE FirstDecoded(Decodings(
            _candidate_json_strings(_strip_code_fences(Strip(raw, PyWs)))))

TYPE == <<"t", "y", "p", "e">>

TEXT == <<"t", "e", "x", "t">>

_looks_like_text_chunk(value) ==
    /\ value.t = "dict"
    /\ HasKey(value, TYPE)
    /\ HasKey(value, TEXT)
    /\ DictGet(value, TEXT).t = "str"

_looks_like_text_chunks(value) ==
    /\ value # <<>>
    /\ \A i \in 1..Len(value) : _looks_like_text_chunk(value[i])

\* a variant that reads the first fragment only
JoinTextsFirstOnly(parts) ==
    IF parts = <<>> THEN <<>> ELSE DictGet(Head(parts), TEXT).s

RECURSIVE JoinTexts(_)
JoinTexts(parts) ==
    IF parts = <<>> THEN <<>>
    ELSE DictGet(Head(parts), TEXT).s \o JoinTexts(Tail(parts))

\* str(content) of a value that is neither None, a mapping, a list nor a str
PyScalarText(v) ==
    IF v.t = "bool" THEN (IF v.s = <<"t">> THEN <<"T", "r", "u", "e">>
                          ELSE <<"F", "a", "l", "s", "e">>)
    ELSE v.s

\* the text handed to _loads_json_string at lines 78, 84, 90 and 98
TextToLoad(content) ==
    IF content.t = "dict" THEN DictGet(content, TEXT).s
    ELSE IF content.t = "list" THEN JoinTexts(content.kids)
    ELSE IF content.t = "str" THEN content.s
    ELSE PyScalarText(content)

RECURSIVE _deserialize_tool_content(_)
_deserialize_tool_content(content) ==
    IF content.t = "none" THEN PyNone
    ELSE IF content.t = "dict" /\ ~_looks_like_text_chunk(content) THEN content
    ELSE IF content.t = "list" /\ ~_looks_like_text_chunks(content.kids)
         THEN IF Len(content.kids) = 1 THEN _deserialize_tool_content(content.kids[1])
              ELSE content
    ELSE _loads_json_string(TextToLoad(content))

(***************************************************************************)
(* The tool catalog handed to SessionInjectingToolNode.__init__.  A tool   *)
(* has a name and an args_schema of one of the shapes the constructor      *)
(* tells apart: "v2" (model_fields), "v1" (__fields__), "dict" (a raw      *)
(* mapping with properties) or "none" (no schema).  The properties entry   *)
(* of a raw mapping need not be a mapping: "dict_missing" has no such      *)
(* entry, "dict_none" holds None, "dict_number" a number, "dict_list" a    *)
(* list of the names in fields and "dict_text" a text in which the names   *)
(* in fields occur.  "other" is a schema object of none of these kinds.    *)
(***************************************************************************)
Tool(name, shape, fields) == [name |-> name, shape |-> shape, fields |-> fields]

tools ==
    << Tool("consumption_recommend", "dict", {"query", "session_id"}),
       Tool("get_card_description", "v2", {"query", "session_id"}),
       Tool("get_card_recommendation", "v1", {"query"}),
       Tool("query_faq_database", "dict", {"query"}),
       Tool("query_term_database", "none", {}) >>

\* the schemas on which `"session_id" in ...` is evaluated and is defined:
\* a key of model_fields, __fields__ or properties, an item of a list, a
\* part of a text
ContainerShapes == {"v2", "v1", "dict", "dict_list", "dict_text"}

\* the schemas on which `"session_id" in props` raises TypeError
UniterableShapes == {"dict_none", "dict_number"}

\* the set SessionInjectingToolNode.__init__ builds
RequiringSessionId(ts) ==
    {ts[i].name : i \in {j \in 1..Len(ts) :
        /\ TruthyId(ts[j].name)
        /\ ts[j].shape \in ContainerShapes
        /\ "session_id" \in ts[j].fields}}

\* SessionInjectingToolNode.__init__ raises: a named tool's raw mapping holds
\* a properties entry that supports no membership test
InitRaises(ts) ==
    \E j \in 1..Len(ts) : TruthyId(ts[j].name) /\ ts[j].shape \in UniterableShapes

tools_requiring_session_id == RequiringSessionId(tools)

(***************************************************************************)
(* Turns (LangChain messages) and tool-invocation requests.                *)
(***************************************************************************)
\* a request as a mapping: "has" are the keys present; a key that is absent
\* holds None here.  "function" is the nested shape of the older calling
\* convention, {"function": {"name": ..., "arguments": ...}}.
NoFunction == [name |-> None, arguments |-> PyNone]

ToolCall(id, name, args) ==
    [has |-> {"id", "name", "args"}, id |-> id, name |-> name, args |-> args,
     arguments |-> PyNone, function |-> NoFunction]

Msg(type, content, calls, call_id, name) ==
    [type |-> type, content |-> content, tool_calls |-> calls,
     tool_call_id |-> call_id, name |-> name]

SystemMessage(content) == Msg("system", content, <<>>, None, None)

HumanMessage(content) == Msg("human", content, <<>>, None, None)

AIMessage(content, calls) == Msg("ai", content, calls, None, None)

ToolMessage(content, call_id, name) == Msg("tool", content, <<>>, call_id, name)

SESSION_ID == <<"s", "e", "s", "s", "i", "o", "n", "_", "i", "d">>

QUERY == <<"q", "u", "e", "r", "y">>

(***************************************************************************)
(* The Tool-Call Extractor (core/parse_tool.py).  The summary is a mapping *)
(* with any of four keys; "has" are the keys present, and the summary with *)
(* no key is what the extractor returns as None.                           *)
(***************************************************************************)
NoMetadata ==
    [has |-> {}, tool_name |-> None, tool_args |-> PyNone, tool_call_id |-> None,
     tool_response_content |-> PyNone]

\* _get_tool_call_field(tool_call, "id") and (tool_call, "name")
_get_tool_call_field(tool_call, field) ==
    IF field \in tool_call.has THEN tool_call[field]
    ELSE IF "function" \in tool_call.has /\ field = "name" THEN tool_call.function.name
    ELSE None

\* _get_tool_call_field(tool_call, "args") and (tool_call, "arguments")
_get_tool_call_field_args(tool_call, field) ==
    IF field \in tool_call.has THEN tool_call[field]
    ELSE IF "function" \in tool_call.has THEN tool_call.function.arguments
    ELSE PyNone

\* a decoding that is handed on as it is, None included
ParsedOnly(parsed, raw) == parsed

\* "parsed if parsed is not None, else raw" (lines 31-35 and 186-188)
ParsedOr(parsed, raw) == IF parsed # PyNone THEN parsed ELSE raw

_get_tool_call_args(tool_call) ==
    LET a1 == _get_tool_call_field_args(tool_call, "args")
        args == IF a1 = PyNone THEN _get_tool_call_field_args(tool_call, "arguments") ELSE a1
    IN  IF args.t = "str" THEN ParsedOr(_loads_json_string(args.s), args) ELSE args

\* a branch that records what the normalizer gave, None included
RecordToolResultNoFallback(md, message) ==
    [md EXCEPT
        !.has = @ \cup {"tool_response_content", "tool_name"},
        !.tool_response_content = _deserialize_tool_content(message.content),
        !.tool_name = message.name]

\* the branch for a tool-result turn (lines 27-38)
RecordToolResult(md, message) ==
    [md EXCEPT
        !.has = @ \cup {"tool_response_content", "tool_name"},
        !.tool_response_content =
            ParsedOr(_deserialize_tool_content(message.content), message.content),
        !.tool_name = message.name]

\* the request of an assistant turn the loop of lines 44-59 stops at: the
\* last one that is not skipped, 0 when every request is skipped
CapturedIndex(tool_calls, last_tool_call_id) ==
    LET kept == {i \in 1..Len(tool_calls) :
                    ~(/\ TruthyId(last_tool_call_id)
                      /\ TruthyId(_get_tool_call_field(tool_calls[i], "id"))
                      /\ _get_tool_call_field(tool_calls[i], "id") # last_tool_call_id)}
    IN  IF kept = {} THEN 0 ELSE CHOOSE i \in kept : \A j \in kept : j <= i

\* what the request the loop stops at leaves in tool_metadata (lines 52-57)
RecordCaptured(md, call_id, name, args) ==
    LET md1 == IF TruthyId(name) /\ "tool_name" \notin md.has
               THEN [md EXCEPT !.has = @ \cup {"tool_name"}, !.tool_name = name]
               ELSE md
        md2 == IF args # PyNone
               THEN [md1 EXCEPT !.has = @ \cup {"tool_args"}, !.tool_args = args]
               ELSE md1
    IN  IF TruthyId(call_id) /\ "tool_call_id" \notin md2.has
        THEN [md2 EXCEPT !.has = @ \cup {"tool_call_id"}, !.tool_call_id = call_id]
        ELSE md2

\* the branch for an assistant turn (lines 41-59)
RecordToolCall(md, message, last_tool_call_id) ==
    LET i == CapturedIndex(message.tool_calls, last_tool_call_id)
    IN  IF i = 0 THEN md
        ELSE RecordCaptured(md, _get_tool_call_field(message.tool_calls[i], "id"),
                            _get_tool_call_field(message.tool_calls[i], "name"),
                            _get_tool_call_args(message.tool_calls[i]))

\* a scan that goes on past every user turn
StopsNever(message, md) == FALSE

\* the test of lines 62-63, made after a turn was handled
StopsAt(message, md) == message.type = "human" /\ md.has # {}

RECURSIVE ScanFrom(_, _, _, _)

\* the end of the loop body for a turn that left md in tool_metadata
AfterTurn(msgs, i, md, last_tool_call_id) ==
    IF StopsAt(msgs[i], md) THEN md ELSE ScanFrom(msgs, i - 1, md, last_tool_call_id)

\* the loop of lines 22-63 from the i-th turn down to the first
ScanFrom(msgs, i, md, last_tool_call_id) ==
    IF i = 0 THEN md
    ELSE IF msgs[i].type = "tool" /\ "tool_response_content" \notin md.has
         THEN ScanFrom(msgs, i - 1, RecordToolResult(md, msgs[i]), msgs[i].tool_call_id)
    ELSE AfterTurn(msgs, i,
                   IF msgs[i].type = "ai"
                   THEN RecordToolCall(md, msgs[i], last_tool_call_id)
                   ELSE md,
                   last_tool_call_id)

\* parse_tool_from_messages(messages); NoMetadata stands for None
parse_tool_from_messages(msgs) == ScanFrom(msgs, Len(msgs), NoMetadata, None)

(***************************************************************************)
(* SessionInjectingToolNode.ainvoke, the rewrite before the wrapped step.  *)
(***************************************************************************)
\* an injection that keeps a session id the model already supplied
InjectCallKeep(call, sid) ==
    IF call.name \notin tools_requiring_session_id THEN call
    ELSE LET args == IF Truthy(call.args) THEN call.args ELSE EmptyDict
         IN  IF HasKey(args, SESSION_ID) THEN [call EXCEPT !.args = args]
             ELSE [call EXCEPT !.args = DictSet(args, SESSION_ID, PyStr(sid))]

\* an injection into every request, whatever its tool
InjectCallAll(call, sid) ==
    LET args == IF Truthy(call.args) THEN call.args ELSE EmptyDict
    IN  [call EXCEPT !.args = DictSet(args, SESSION_ID, PyStr(sid))]

\* an injection that joins the session id to a value already there
InjectCallJoin(call, sid) ==
    IF call.name \notin tools_requiring_session_id THEN call
    ELSE LET args == IF Truthy(call.args) THEN call.args ELSE EmptyDict
             old == IF HasKey(args, SESSION_ID) /\ DictGet(args, SESSION_ID).t = "str"
                    THEN DictGet(args, SESSION_ID).s ELSE <<>>
         IN  [call EXCEPT !.args = DictSet(args, SESSION_ID, PyStr(old \o sid))]

\* one pass of the loop body over a request (lines 154-183)
InjectCall(call, sid) ==
    IF call.name \notin tools_requiring_session_id THEN call
    ELSE LET args == IF Truthy(call.args) THEN call.args ELSE EmptyDict
         IN  [call EXCEPT !.args = DictSet(args, SESSION_ID, PyStr(sid))]

\* the check with the ValueError of uuid.UUID left uncaught
SessionIdOfUncaught(cfg) ==
    IF ~Truthy(cfg) THEN [ok |-> FALSE, raises |-> FALSE, sid |-> <<>>]
    ELSE IF ~UuidParses(PyStrOf(cfg)) THEN [ok |-> FALSE, raises |-> TRUE, sid |-> <<>>]
    ELSE [ok |-> TRUE, raises |-> FALSE, sid |-> UuidStr(PyStrOf(cfg))]

\* the session id the node uses: absent (ok = FALSE) when the config has
\* none or uuid.UUID raises, else the text str(uuid.UUID(...)) gives
SessionIdOf(cfg) ==
    IF ~Truthy(cfg) THEN [ok |-> FALSE, raises |-> FALSE, sid |-> <<>>]
    ELSE IF ~UuidParses(PyStrOf(cfg)) THEN [ok |-> FALSE, raises |-> FALSE, sid |-> <<>>]
    ELSE [ok |-> TRUE, raises |-> FALSE, sid |-> UuidStr(PyStrOf(cfg))]

\* a rewrite that visits the requests of every turn, not of the last only
InjectEveryTurn(msgs, cfg) ==
    LET s == SessionIdOf(cfg)
    IN  IF ~s.ok THEN msgs
        ELSE [k \in 1..Len(msgs) |->
                [msgs[k] EXCEPT !.tool_calls =
                    [i \in 1..Len(msgs[k].tool_calls) |->
                        InjectCall(msgs[k].tool_calls[i], s.sid)]]]

\* the turn sequence after the rewrite of ainvoke (lines 111-186); the
\* requests are rewritten in place, so the caller's sequence changes too
Inject(msgs, cfg) ==
    LET s == SessionIdOf(cfg)
    IN  IF ~s.ok THEN msgs
        ELSE IF msgs = <<>> THEN msgs
        ELSE LET last == msgs[Len(msgs)]
             IN  IF last.tool_calls = <<>> THEN msgs
                 ELSE [msgs EXCEPT ![Len(msgs)].tool_calls =
                          [i \in 1..Len(last.tool_calls) |->
                              InjectCall(last.tool_calls[i], s.sid)]]

(***************************************************************************)
(* ToolNode.ainvoke, the wrapped step: one tool-result turn per request    *)
(* of the last turn, carrying the request's id and name and the payload    *)
(* the tool backend answered with.                                         *)
(***************************************************************************)
JsonText == <<"{", "\"", "a", "\"", ":", "1", "}">>

GarbageText == <<"n", "o", "t", " ", "j", "s", "o", "n">>

OlderText == <<"[", "1", "]">>

ToolPayloads == {PyStr(JsonText), PyStr(GarbageText)}

LastCalls(msgs) == IF msgs = <<>> THEN <<>> ELSE msgs[Len(msgs)].tool_calls

\* the tool backend stubbed with one answer, for calls of the node on its own
StubPayloads == {PyStr(JsonText)}

ToolNodeOutputs(msgs, payloads) ==
    LET calls == LastCalls(msgs)
    IN  {[i \in 1..Len(calls) |-> ToolMessage(f[i], calls[i].id, calls[i].name)] :
            f \in [1..Len(calls) -> payloads]}

(***************************************************************************)
(* Inputs of the tool node when it is called on its own.                   *)
(***************************************************************************)
MaxCalls == 2

Hyphenated(c) ==
    Rep(c, 8) \o <<"-">> \o Rep(c, 4) \o <<"-">> \o Rep(c, 4) \o <<"-">> \o Rep(c, 4)
    \o <<"-">> \o Rep(c, 12)

CanonA == Hyphenated("a")

CanonB == Hyphenated("b")

UpperA == Hyphenated("A")

BracedA == <<"{">> \o CanonA \o <<"}">>

UrnA == <<"u", "r", "n", ":", "u", "u", "i", "d", ":">> \o CanonA

\* config["configurable"]["session_id"]: none, empty, malformed, well formed
ConfigSessionIds ==
    { PyNone, PyStr(<<>>), PyStr(Rep("a", 31)), PyStr(Hyphenated("g")),
      PyStr(CanonA), PyStr(UpperA), PyStr(BracedA), PyStr(UrnA) }

QueryText == <<"c", "a", "r", "d">>

\* args as the model issues them: none, empty, with and without a session id
ModelArgs ==
    { PyNone,
      PyDict(<<QUERY>>, <<PyStr(QueryText)>>),
      PyDict(<<SESSION_ID, QUERY>>, <<PyStr(CanonB), PyStr(QueryText)>>) }

\* a tool that needs the session id, one that does not, one not in the catalog
CallNames == {"consumption_recommend", "query_faq_database", "get_weather"}

CallId(i) == IF i = 1 THEN "call_1" ELSE IF i = 2 THEN "call_2" ELSE "call_3"

\* the tool_calls of one assistant turn: up to MaxCalls requests
CallLists ==
    UNION {{[i \in 1..n |-> ToolCall(CallId(i), nm[i], ar[i])] :
                nm \in [1..n -> CallNames], ar \in [1..n -> ModelArgs]} : n \in 0..MaxCalls}

SystemPrompt == <<"S">>

OlderCall ==
    ToolCall("call_0", "consumption_recommend",
             PyDict(<<SESSION_ID>>, <<PyStr(CanonB)>>))

\* an earlier exchange with tool activity of its own
OlderExchange ==
    << HumanMessage(PyStr(<<"o", "l", "d">>)),
       AIMessage(PyStr(<<>>), <<OlderCall>>),
       ToolMessage(PyStr(OlderText), "call_0", "consumption_recommend") >>

History == <<SystemMessage(PyStr(SystemPrompt))>> \o OlderExchange

\* the state handed to the node: empty, ending in a user turn, or ending in
\* an assistant turn with zero or more requests
NodeInputs ==
    {<<>>}
    \cup {History \o <<HumanMessage(PyStr(QueryText))>>}
    \cup {History \o <<HumanMessage(PyStr(QueryText)), AIMessage(PyStr(<<>>), cs)>> :
            cs \in CallLists}

\* history_store._store before any session is referenced
\* _store = {}: no session has a record
NoSessions == [s \in {} |-> <<>>]

\* no get_history call was made yet
NotLoaded == [session_id |-> None, messages |-> <<>>]

NoRequest == [query |-> <<>>, session_id |-> PyNone]

NoResponse == [answer |-> <<>>]

InitNode ==
    /\ pc = "node"
    /\ messages \in NodeInputs
    /\ config \in ConfigSessionIds
    /\ wrapped_runs = 0
    /\ wrapped_input = <<>>
    /\ node_output = <<>>
    /\ raised = FALSE
    /\ request = NoRequest
    /\ response = NoResponse
    /\ tool_metadata = NoMetadata
    /\ normalized = PyNone
    /\ catalog = <<>>
    /\ requiring_names = {}
    /\ emitted = <<>>
    /\ model_calls = 0
    /\ tool_value = PyNone
    /\ _store = NoSessions
    /\ persisted = <<>>
    /\ loaded = NotLoaded

\* SessionInjectingToolNode.ainvoke(input, config), called on "messages"
ainvoke ==
    /\ pc = "node"
    /\ wrapped_runs < MaxInvokes
    /\ IF SessionIdOf(config).raises
       THEN /\ raised' = TRUE
            /\ pc' = "raised"
            /\ UNCHANGED <<messages, wrapped_runs, wrapped_input, node_output>>
       ELSE /\ messages' = Inject(messages, config)
            /\ wrapped_input' = messages'
            /\ wrapped_runs' = wrapped_runs + 1
            /\ node_output' \in ToolNodeOutputs(messages', StubPayloads)
            /\ UNCHANGED <<pc, raised>>
    /\ UNCHANGED <<config, request, response, tool_metadata, normalized>>
    /\ UNCHANGED <<tool_value, _store, persisted, loaded,
                   catalog, requiring_names, emitted, model_calls>>

NextNode == ainvoke

SpecNode == InitNode /\ [][NextNode]_vars

(***************************************************************************)
(* The extractor applied to turn sequences: an optional older exchange,    *)
(* the user turn, and the current exchange made of an optional assistant   *)
(* turn, up to MaxResults tool-result turns and an optional closing        *)
(* assistant turn.  Requests are told apart by name and args, which go     *)
(* with the place of the request; ids and tool-result names vary.          *)
(***************************************************************************)
MaxResults == 2

ExtractIds == {"X", "Y", None}

CurName(i) ==
    IF i = 1 THEN "get_card_description"
    ELSE IF i = 2 THEN "get_card_recommendation"
    ELSE "query_term_database"

CurArgs(i) ==
    PyDict(<<QUERY>>, <<PyStr(IF i = 1 THEN <<"c", "1">>
                              ELSE IF i = 2 THEN <<"c", "2">> ELSE <<"c", "3">>)>>)

\* the content a tool-result turn carries, by the id it answers
ResultContent(id) ==
    IF id = "X" THEN PyStr(JsonText)
    ELSE IF id = "Y" THEN PyStr(GarbageText)
    ELSE PyList(<<PyStr(JsonText), PyStr(GarbageText)>>)

FreeText == <<"h", "i">>

ExtractCallLists ==
    UNION {{[i \in 1..n |-> ToolCall(ids[i], CurName(i), CurArgs(i))] :
                ids \in [1..n -> ExtractIds]} : n \in 1..MaxCalls}

\* the assistant turn of the current exchange: none, free text, requests
ExtractAiTurns ==
    {<<>>, <<AIMessage(PyStr(FreeText), <<>>)>>}
    \cup {<<AIMessage(PyStr(<<>>), cs)>> : cs \in ExtractCallLists}

ExtractResults ==
    {ToolMessage(ResultContent(id), id, nm) :
        id \in ExtractIds, nm \in {None, CurName(1)}}

ExtractResultLists ==
    UNION {[1..n -> ExtractResults] : n \in 0..MaxResults}

ClosingCall == ToolCall("Y", "query_faq_database", PyDict(<<QUERY>>, <<PyStr(<<"f">>)>>))

\* the turn that closes the exchange: none, a final answer, one more request
ExtractClosingTurns ==
    {<<>>, <<AIMessage(PyStr(FreeText), <<>>)>>, <<AIMessage(PyStr(<<>>), <<ClosingCall>>)>>}

ExtractInputs ==
    {h \o <<HumanMessage(PyStr(QueryText))>> \o a \o r \o c :
        h \in {<<SystemMessage(PyStr(SystemPrompt))>>, History},
        a \in ExtractAiTurns, r \in ExtractResultLists, c \in ExtractClosingTurns}

InitExtract ==
    /\ pc = "extract"
    /\ messages \in ExtractInputs
    /\ config = PyNone
    /\ wrapped_runs = 0
    /\ wrapped_input = <<>>
    /\ node_output = <<>>
    /\ raised = FALSE
    /\ request = NoRequest
    /\ response = NoResponse
    /\ tool_metadata = NoMetadata
    /\ normalized = PyNone
    /\ catalog = <<>>
    /\ requiring_names = {}
    /\ emitted = <<>>
    /\ model_calls = 0
    /\ tool_value = PyNone
    /\ _store = NoSessions
    /\ persisted = <<>>
    /\ loaded = NotLoaded

\* parse_tool_from_messages(messages)
extract ==
    /\ pc = "extract"
    /\ tool_metadata' = parse_tool_from_messages(messages)
    /\ pc' = "extracted"
    /\ UNCHANGED <<messages, config, wrapped_runs, wrapped_input, node_output, raised,
                   request, response, normalized>>
    /\ UNCHANGED <<tool_value, _store, persisted, loaded,
                   catalog, requiring_names, emitted, model_calls>>

NextExtract == extract

SpecExtract == InitExtract /\ [][NextExtract]_vars

(***************************************************************************)
(* The normalizer applied to the content of one tool-result turn, and the  *)
(* extractor applied to the exchange that holds it.                        *)
(***************************************************************************)
MaxTextLen == 4

TextAlphabet == {"{", "}", "[", "]", "\"", "a", ":", "1"}

TextsOfLen(n) == [1..n -> TextAlphabet]

NotJsonAtAll ==
    <<"n", "o", "t", " ", "j", "s", "o", "n", " ", "a", "t", " ", "a", "l", "l">>

\* every text over the alphabet up to MaxTextLen, and longer samples
RawTexts ==
    UNION {TextsOfLen(n) : n \in 0..MaxTextLen}
    \cup { NotJsonAtAll, GarbageText, JsonText, <<" ", " ">>,
           Fence \o <<"\n">> \o GarbageText \o <<"\n">> \o Fence,
           Fence \o <<"\n">> \o JsonText \o <<"\n">> \o Fence,
           <<"s", "e", "e", " ">> \o JsonText \o <<" ", "o", "k">>,
           <<"s", "e", "e", " ", "[">> \o JsonText \o <<"]", " ", "o", "k">>,
           <<"{", "a", "}", " ", "[", "a", "]">> }

InitNormalize ==
    /\ pc = "normalize"
    /\ \E raw \in RawTexts :
          messages = <<HumanMessage(PyStr(QueryText)),
                       AIMessage(PyStr(<<>>), <<ToolCall("X", CurName(1), CurArgs(1))>>),
                       ToolMessage(PyStr(raw), "X", CurName(1))>>
    /\ config = PyNone
    /\ wrapped_runs = 0
    /\ wrapped_input = <<>>
    /\ node_output = <<>>
    /\ raised = FALSE
    /\ request = NoRequest
    /\ response = NoResponse
    /\ tool_metadata = NoMetadata
    /\ normalized = PyNone
    /\ catalog = <<>>
    /\ requiring_names = {}
    /\ emitted = <<>>
    /\ model_calls = 0
    /\ tool_value = PyNone
    /\ _store = NoSessions
    /\ persisted = <<>>
    /\ loaded = NotLoaded

\* _deserialize_tool_content(content) of the last turn's content
deserialize ==
    /\ pc = "normalize"
    /\ normalized' = _deserialize_tool_content(messages[Len(messages)].content)
    /\ pc' = "extract"
    /\ UNCHANGED <<messages, config, wrapped_runs, wrapped_input, node_output, raised,
                   request, response, tool_metadata>>
    /\ UNCHANGED <<tool_value, _store, persisted, loaded,
                   catalog, requiring_names, emitted, model_calls>>

NextNormalize == deserialize \/ extract

SpecNormalize == InitNormalize /\ [][NextNormalize]_vars

(***************************************************************************)
(* A tool's result on its way to the normalizer.  The tool encodes its     *)
(* value with json.dumps(value, ensure_ascii=False) (agent/agent.py); the  *)
(* text reaches the tool-result turn as it is, inside a code fence, or cut *)
(* into text fragments, and _deserialize_tool_content reads it back.       *)
(***************************************************************************)
MaxItems == 2

MaxFragments == 2

\* what json.dumps writes for one character of a string
JsonEscape(c) ==
    IF c = "\"" THEN <<"\\", "\"">>
    ELSE IF c = "\\" THEN <<"\\", "\\">>
    ELSE IF c = "\n" THEN <<"\\", "n">>
    ELSE IF c = "\r" THEN <<"\\", "r">>
    ELSE IF c = "\t" THEN <<"\\", "t">>
    ELSE <<c>>

RECURSIVE JsonQuoteBody(_)
JsonQuoteBody(s) ==
    IF s = <<>> THEN <<>> ELSE JsonEscape(Head(s)) \o JsonQuoteBody(Tail(s))

JsonQuote(s) == <<"\"">> \o JsonQuoteBody(s) \o <<"\"">>

RECURSIVE json_dumps(_)

\* the items of a list, joined with the item separator ", "
RECURSIVE DumpItems(_)
DumpItems(vs) ==
    IF vs = <<>> THEN <<>>
    ELSE IF Len(vs) = 1 THEN json_dumps(vs[1])
    ELSE json_dumps(vs[1]) \o <<",", " ">> \o DumpItems(Tail(vs))

\* the pairs of a dict, with the key separator ": "
RECURSIVE DumpPairs(_, _)
DumpPairs(ks, vs) ==
    IF ks = <<>> THEN <<>>
    ELSE IF Len(ks) = 1 THEN JsonQuote(ks[1]) \o <<":", " ">> \o json_dumps(vs[1])
    ELSE JsonQuote(ks[1]) \o <<":", " ">> \o json_dumps(vs[1]) \o <<",", " ">>
         \o DumpPairs(Tail(ks), Tail(vs))

\* json.dumps(value, ensure_ascii=False)
json_dumps(v) ==
    CASE v.t = "none" -> <<"n", "u", "l", "l">>
      [] v.t = "bool" -> (IF v.s = <<"t">> THEN <<"t", "r", "u", "e">>
                          ELSE <<"f", "a", "l", "s", "e">>)
      [] v.t \in {"int", "float"} -> v.s
      [] v.t = "str" -> JsonQuote(v.s)
      [] v.t = "list" -> <<"[">> \o DumpItems(v.kids) \o <<"]">>
      [] v.t = "dict" -> <<"{">> \o DumpPairs(v.keys, v.kids) \o <<"}">>

One == PyInt(<<"1">>)

\* null, booleans, numbers and strings: empty, with braces, with brackets,
\* starting with a fence, with a quote, a backslash, a line break, a blank
Scalars ==
    { PyNone, PyBool("t"), PyBool("f"),
      PyInt(<<"0">>), One, PyInt(<<"-", "1">>), PyFloat(<<"1", ".", "5">>),
      PyStr(<<>>), PyStr(<<"a">>), PyStr(<<"{", "}">>), PyStr(<<"[", "1", "]">>),
      PyStr(Fence \o <<"a">>), PyStr(<<"\"">>), PyStr(<<"\\">>), PyStr(<<"\n">>),
      PyStr(<<" ">>), PyStr(<<"n", "u", "l", "l">>), PyStr(<<LineSeparator>>) }

Items == {One, PyStr(<<"{", "}">>), PyDict(<<<<"a">>>>, <<One>>)}

ItemKeys == {<<"a">>, <<"b">>}

ListsOf(n) == {PyList(vs) : vs \in [1..n -> Items]}

DictsOf(n) ==
    {PyDict(ks, vs) :
        ks \in {k \in [1..n -> ItemKeys] : \A i, j \in 1..n : i # j => k[i] # k[j]},
        vs \in [1..n -> Items]}

\* an array and an object that hold a string with a line separator in it
SeparatorText == <<"x", LineSeparator, "y">>

SeparatorValues ==
    {PyList(<<PyStr(SeparatorText)>>), PyDict(<<<<"a">>>>, <<PyStr(SeparatorText)>>)}

JsonValues ==
    Scalars \cup SeparatorValues
    \cup UNION {ListsOf(n) \cup DictsOf(n) : n \in 0..MaxItems}

\* the language tag after the opening fence: none, or json
FenceTags == {<<>>, <<"j", "s", "o", "n">>}

Fenced(tag, text) == Fence \o tag \o <<"\n">> \o text \o <<"\n">> \o Fence

\* a content fragment of LangChain: {"type": "text", "text": part}
TextChunk(part) == PyDict(<<TYPE, TEXT>>, <<PyStr(TEXT), PyStr(part)>>)

\* the ways to cut a text into n fragments, none of them empty
CutsOf(text, n) ==
    {c \in [0..n -> 0..Len(text)] :
        /\ c[0] = 0
        /\ c[n] = Len(text)
        /\ \A i \in 1..n : c[i - 1] < c[i]}

Fragments(text, c, n) == [i \in 1..n |-> TextChunk(SubSeq(text, c[i - 1] + 1, c[i]))]

ResultTurn(content) == ToolMessage(content, "X", CurName(1))

EncodedText == messages[Len(messages)].content.s

InitRoundTrip ==
    /\ pc = "encode"
    /\ tool_value \in JsonValues
    /\ messages = <<HumanMessage(PyStr(QueryText)),
                    AIMessage(PyStr(<<>>), <<ToolCall("X", CurName(1), CurArgs(1))>>)>>
    /\ config = PyNone
    /\ wrapped_runs = 0
    /\ wrapped_input = <<>>
    /\ node_output = <<>>
    /\ raised = FALSE
    /\ request = NoRequest
    /\ response = NoResponse
    /\ tool_metadata = NoMetadata
    /\ normalized = PyNone
    /\ catalog = <<>>
    /\ requiring_names = {}
    /\ emitted = <<>>
    /\ model_calls = 0
    /\ _store = NoSessions
    /\ persisted = <<>>
    /\ loaded = NotLoaded

\* the tool returns json.dumps(result.data, ensure_ascii=False)
json_encode ==
    /\ pc = "encode"
    /\ messages' = Append(messages, ResultTurn(PyStr(json_dumps(tool_value))))
    /\ pc' = "encoded"
    /\ UNCHANGED <<config, wrapped_runs, wrapped_input, node_output, raised,
                   request, response, tool_metadata, normalized>>
    /\ UNCHANGED <<tool_value, _store, persisted, loaded,
                   catalog, requiring_names, emitted, model_calls>>

\* the encoded text is the content of the tool-result turn as it is
return_text ==
    /\ pc = "encoded"
    /\ pc' = "normalize"
    /\ UNCHANGED <<messages, config, wrapped_runs, wrapped_input, node_output, raised,
                   request, response, tool_metadata, normalized>>
    /\ UNCHANGED <<tool_value, _store, persisted, loaded,
                   catalog, requiring_names, emitted, model_calls>>

\* the encoded text comes wrapped in a code fence, its lines around the text
return_fenced ==
    /\ pc = "encoded"
    /\ \E tag \in FenceTags :
          messages' = [messages EXCEPT ![Len(messages)] =
                          ResultTurn(PyStr(Fenced(tag, EncodedText)))]
    /\ pc' = "normalize"
    /\ UNCHANGED <<config, wrapped_runs, wrapped_input, node_output, raised,
                   request, response, tool_metadata, normalized>>
    /\ UNCHANGED <<tool_value, _store, persisted, loaded,
                   catalog, requiring_names, emitted, model_calls>>

\* the encoded text comes cut into text fragments
return_fragments ==
    /\ pc = "encoded"
    /\ \E n \in 1..MaxFragments :
          \E c \in CutsOf(EncodedText, n) :
             messages' = [messages EXCEPT ![Len(messages)] =
                             ResultTurn(PyList(Fragments(EncodedText, c, n)))]
    /\ pc' = "normalize"
    /\ UNCHANGED <<config, wrapped_runs, wrapped_input, node_output, raised,
                   request, response, tool_metadata, normalized>>
    /\ UNCHANGED <<tool_value, _store, persisted, loaded,
                   catalog, requiring_names, emitted, model_calls>>

NextRoundTrip ==
    \/ json_encode
    \/ return_text
    \/ return_fenced
    \/ return_fragments
    \/ deserialize

SpecRoundTrip == InitRoundTrip /\ [][NextRoundTrip]_vars

(***************************************************************************)
(* The history store (core/history_store.py): a module-level map from a    *)
(* session id to the record of its turns, written by persist_history and   *)
(* read by get_history.  A session id is a text; "" is the empty one.      *)
(***************************************************************************)
MaxReplaces == 3

StoreSessionIds == {"", "s1", "s2"}

T1 == HumanMessage(PyStr(QueryText))

T2 == AIMessage(PyStr(FreeText), <<>>)

T3 == HumanMessage(PyStr(<<"h", "i">>))

TurnLists == {<<>>, <<T1, T2>>, <<T3>>}

\* a variant that keeps the turns stored before and adds the new ones
ReplaceMerging(store, session_id, msgs) ==
    [s \in DOMAIN store \cup {session_id} |->
        IF s = session_id
        THEN (IF session_id \in DOMAIN store THEN store[session_id] ELSE <<>>) \o msgs
        ELSE store[s]]

\* _store[session_id] = ChatMessageHistory(messages=list(messages))
Replace(store, session_id, msgs) ==
    [s \in DOMAIN store \cup {session_id} |-> IF s = session_id THEN msgs ELSE store[s]]

\* a variant that writes whatever it is given
PersistedAlways(store, session_id, msgs) == Replace(store, session_id, msgs)

\* the map after persist_history(session_id, messages)
Persisted(store, session_id, msgs) ==
    IF session_id = "" \/ msgs = <<>> THEN store
    ELSE Replace(store, session_id, msgs)

\* the map after _get_session_history(session_id): an unseen id gets an
\* empty record
Fetched(store, session_id) ==
    IF session_id \in DOMAIN store THEN store
    ELSE Replace(store, session_id, <<>>)

InitHistory ==
    /\ pc = "store"
    /\ _store = NoSessions
    /\ persisted = <<>>
    /\ loaded = NotLoaded
    /\ messages = <<>>
    /\ config = PyNone
    /\ wrapped_runs = 0
    /\ wrapped_input = <<>>
    /\ node_output = <<>>
    /\ raised = FALSE
    /\ request = NoRequest
    /\ response = NoResponse
    /\ tool_metadata = NoMetadata
    /\ normalized = PyNone
    /\ catalog = <<>>
    /\ requiring_names = {}
    /\ emitted = <<>>
    /\ model_calls = 0
    /\ tool_value = PyNone

\* persist_history(session_id, messages)
persist_history ==
    /\ pc = "store"
    /\ Len(persisted) < MaxReplaces
    /\ \E session_id \in StoreSessionIds, msgs \in TurnLists :
          /\ persisted' = Append(persisted, [session_id |-> session_id, messages |-> msgs])
          /\ _store' = Persisted(_store, session_id, msgs)
    /\ UNCHANGED <<pc, messages, config, wrapped_runs, wrapped_input, node_output, raised,
                   request, response, tool_metadata, normalized, tool_value, loaded,
                   catalog, requiring_names, emitted, model_calls>>

\* get_history(session_id), the coroutine that the name is bound to
get_history ==
    /\ pc = "store"
    /\ \E session_id \in StoreSessionIds :
          IF session_id = ""
          THEN /\ loaded' = [session_id |-> session_id, messages |-> <<>>]
               /\ _store' = _store
          ELSE /\ _store' = Fetched(_store, session_id)
               /\ loaded' = [session_id |-> session_id, messages |-> _store'[session_id]]
    /\ UNCHANGED <<pc, messages, config, wrapped_runs, wrapped_input, node_output, raised,
                   request, response, tool_metadata, normalized, tool_value, persisted,
                   catalog, requiring_names, emitted, model_calls>>

NextHistory == persist_history \/ get_history

SpecHistory == InitHistory /\ [][NextHistory]_vars

(***************************************************************************)
(* The dispatch endpoint and the graph of create_custom_agent:             *)
(* START -> agent -> route_decision -> tools | fallback -> END.            *)
(* dispatch takes the agent as a dependency and invokes it on              *)
(* [system, user(query)] with no config; QueryRequest declares the field   *)
(* query only, so a session_id in the request body is dropped.             *)
(***************************************************************************)
Greeting == <<"h", "i">>

Queries == {QueryText, Greeting}

\* the session id in the body of the request: none, well formed, malformed
RequestSessionIds == {PyNone, PyStr(CanonA), PyStr(UpperA), PyStr(Hyphenated("g"))}

Requests == [query : Queries, session_id : RequestSessionIds]

\* default_msg of fallback_node
DEFAULT_MSG == <<"s", "o", "r", "r", "y">>

ReplyNames == {"consumption_recommend", "query_faq_database"}

ReplyArgs ==
    { PyDict(<<QUERY>>, <<PyStr(QueryText)>>),
      PyDict(<<SESSION_ID, QUERY>>, <<PyStr(CanonB), PyStr(QueryText)>>) }

ReplyCallLists ==
    UNION {{[i \in 1..n |-> ToolCall(CallId(i), nm[i], ar[i])] :
                nm \in [1..n -> ReplyNames], ar \in [1..n -> ReplyArgs]} : n \in 1..MaxCalls}

\* what llm_with_tools.ainvoke answers: requests, or text without requests
ModelReplies ==
    {AIMessage(PyStr(<<>>), cs) : cs \in ReplyCallLists}
    \cup {AIMessage(PyStr(t), <<>>) : t \in {<<>>, Greeting}}

\* pick_last_ai_text(messages): the content of the last assistant turn
RECURSIVE PickFrom(_, _)
PickFrom(msgs, k) ==
    IF k = 0 THEN PyNone
    ELSE IF msgs[k].type = "ai" THEN msgs[k].content
    ELSE PickFrom(msgs, k - 1)

pick_last_ai_text(msgs) == PickFrom(msgs, Len(msgs))

\* the session map a dispatch finds: empty, or with one stored session
InitialStores == {NoSessions, Replace(NoSessions, "s1", <<T1, T2>>)}

Init ==
    /\ pc = "dispatch"
    /\ request \in Requests
    /\ messages = <<>>
    /\ config = PyNone
    /\ wrapped_runs = 0
    /\ wrapped_input = <<>>
    /\ node_output = <<>>
    /\ raised = FALSE
    /\ response = NoResponse
    /\ tool_metadata = NoMetadata
    /\ normalized = PyNone
    /\ catalog = <<>>
    /\ requiring_names = {}
    /\ emitted = <<>>
    /\ model_calls = 0
    /\ tool_value = PyNone
    /\ _store \in InitialStores
    /\ persisted = <<>>
    /\ loaded = NotLoaded

\* a variant that hands the opening turns to the route without the model's
\* decision
DispatchSkippingAgent ==
    /\ pc = "dispatch"
    /\ messages' = <<SystemMessage(PyStr(SystemPrompt)), HumanMessage(PyStr(request.query))>>
    /\ config' = PyNone
    /\ pc' = "route"
    /\ UNCHANGED <<wrapped_runs, wrapped_input, node_output, raised, request, response,
                   tool_metadata, normalized>>
    /\ UNCHANGED <<tool_value, _store, persisted, loaded,
                   catalog, requiring_names, emitted, model_calls>>

\* a variant that stores the opening turns before the agent is invoked
DispatchPersistingFirst ==
    /\ pc = "dispatch"
    /\ messages' = <<SystemMessage(PyStr(SystemPrompt)), HumanMessage(PyStr(request.query))>>
    /\ config' = PyNone
    /\ pc' = "agent"
    /\ persisted' = Append(persisted, [session_id |-> "s1", messages |-> messages'])
    /\ _store' = Persisted(_store, "s1", messages')
    /\ UNCHANGED <<wrapped_runs, wrapped_input, node_output, raised, request, response,
                   tool_metadata, normalized, tool_value, loaded,
                   catalog, requiring_names, emitted, model_calls>>

\* dispatch up to agent.ainvoke({"messages": messages}): no config is passed
dispatch ==
    /\ pc = "dispatch"
    /\ messages' = <<SystemMessage(PyStr(SystemPrompt)), HumanMessage(PyStr(request.query))>>
    /\ config' = PyNone
    /\ pc' = "agent"
    /\ UNCHANGED <<wrapped_runs, wrapped_input, node_output, raised, request, response,
                   tool_metadata, normalized>>
    /\ UNCHANGED <<tool_value, _store, persisted, loaded,
                   catalog, requiring_names, emitted, model_calls>>

\* a variant that answers a failed model call on the fallback path
AgentNodeRecovering ==
    /\ pc = "agent"
    /\ \/ /\ \E reply \in ModelReplies : messages' = Append(messages, reply)
          /\ pc' = "route"
          /\ UNCHANGED raised
       \/ /\ raised' = TRUE
          /\ pc' = "fallback"
          /\ UNCHANGED messages
    /\ model_calls' = model_calls + 1
    /\ UNCHANGED <<config, wrapped_runs, wrapped_input, node_output, request, response,
                   tool_metadata, normalized>>
    /\ UNCHANGED <<tool_value, _store, persisted, loaded,
                   catalog, requiring_names, emitted>>

\* agent_node: the model's turn is appended; an exception of the model call
\* is caught by nothing and ends the dispatch
agent_node ==
    /\ pc = "agent"
    /\ \/ /\ \E reply \in ModelReplies : messages' = Append(messages, reply)
          /\ pc' = "route"
          /\ UNCHANGED raised
       \/ /\ raised' = TRUE
          /\ pc' = "failed"
          /\ UNCHANGED messages
    /\ model_calls' = model_calls + 1
    /\ UNCHANGED <<config, wrapped_runs, wrapped_input, node_output, request, response,
                   tool_metadata, normalized>>
    /\ UNCHANGED <<tool_value, _store, persisted, loaded,
                   catalog, requiring_names, emitted>>

\* a variant that routes on the text of the last turn, not on its requests
RouteOnContent ==
    /\ pc = "route"
    /\ pc' = IF messages[Len(messages)].content = PyStr(<<>>) THEN "tools" ELSE "fallback"
    /\ UNCHANGED <<messages, config, wrapped_runs, wrapped_input, node_output, raised,
                   request, response, tool_metadata, normalized>>
    /\ UNCHANGED <<tool_value, _store, persisted, loaded,
                   catalog, requiring_names, emitted, model_calls>>

\* route_decision(state), the conditional edge after "agent"
route_decision ==
    /\ pc = "route"
    /\ pc' = IF Len(messages[Len(messages)].tool_calls) > 0 THEN "tools" ELSE "fallback"
    /\ UNCHANGED <<messages, config, wrapped_runs, wrapped_input, node_output, raised,
                   request, response, tool_metadata, normalized>>
    /\ UNCHANGED <<tool_value, _store, persisted, loaded,
                   catalog, requiring_names, emitted, model_calls>>

\* a variant whose tools node hands the turns back to the model, as the
\* loop of a ReAct agent does
ToolsNodeLooping ==
    /\ pc = "tools"
    /\ wrapped_input' = Inject(messages, config)
    /\ wrapped_runs' = wrapped_runs + 1
    /\ \E out \in ToolNodeOutputs(Inject(messages, config), ToolPayloads) :
          /\ node_output' = out
          /\ messages' = Inject(messages, config) \o out
    /\ pc' = "agent"
    /\ UNCHANGED <<config, raised, request, response, tool_metadata, normalized>>
    /\ UNCHANGED <<tool_value, _store, persisted, loaded,
                   catalog, requiring_names, emitted, model_calls>>

\* the "tools" node: SessionInjectingToolNode.ainvoke with the config of the
\* run; add_messages appends the tool-result turns it returns; an exception
\* that leaves the wrapped step is caught by nothing and ends the dispatch
tools_node ==
    /\ pc = "tools"
    /\ wrapped_input' = Inject(messages, config)
    /\ wrapped_runs' = wrapped_runs + 1
    /\ \/ /\ \E out \in ToolNodeOutputs(Inject(messages, config), ToolPayloads) :
                /\ node_output' = out
                /\ messages' = Inject(messages, config) \o out
          /\ pc' = "end"
          /\ UNCHANGED raised
       \/ /\ raised' = TRUE
          /\ pc' = "failed"
          /\ UNCHANGED <<messages, node_output>>
    /\ UNCHANGED <<config, request, response, tool_metadata, normalized>>
    /\ UNCHANGED <<tool_value, _store, persisted, loaded,
                   catalog, requiring_names, emitted, model_calls>>

\* a variant that writes the canned turn over the model's reply
FallbackOverwriting ==
    /\ pc = "fallback"
    /\ messages' = [messages EXCEPT ![Len(messages)] = AIMessage(PyStr(DEFAULT_MSG), <<>>)]
    /\ pc' = "end"
    /\ UNCHANGED <<config, wrapped_runs, wrapped_input, node_output, raised, request,
                   response, tool_metadata, normalized>>
    /\ UNCHANGED <<tool_value, _store, persisted, loaded,
                   catalog, requiring_names, emitted, model_calls>>

\* fallback_node: the canned assistant turn is appended
fallback_node ==
    /\ pc = "fallback"
    /\ messages' = Append(messages, AIMessage(PyStr(DEFAULT_MSG), <<>>))
    /\ pc' = "end"
    /\ UNCHANGED <<config, wrapped_runs, wrapped_input, node_output, raised, request,
                   response, tool_metadata, normalized>>
    /\ UNCHANGED <<tool_value, _store, persisted, loaded,
                   catalog, requiring_names, emitted, model_calls>>

\* dispatch after agent.ainvoke: QueryResponse(answer=ai_text)
dispatch_return ==
    /\ pc = "end"
    /\ response' = [answer |-> IF Truthy(pick_last_ai_text(messages))
                               THEN pick_last_ai_text(messages).s ELSE <<>>]
    /\ pc' = "done"
    /\ UNCHANGED <<messages, config, wrapped_runs, wrapped_input, node_output, raised,
                   request, tool_metadata, normalized>>
    /\ UNCHANGED <<tool_value, _store, persisted, loaded,
                   catalog, requiring_names, emitted, model_calls>>

Next ==
    \/ dispatch
    \/ agent_node
    \/ route_decision
    \/ tools_node
    \/ fallback_node
    \/ dispatch_return

Spec == Init /\ [][Next]_vars

\* the event loop runs a dispatch on whenever it can take a step: the nodes
\* are coroutines awaited in turn, and none waits for another dispatch
SpecFair == Init /\ [][Next]_vars /\ WF_vars(Next)

(***************************************************************************)
(* Dispatches of sessions with a history.  The endpoint of mcp_router.py   *)
(* neither loads nor replaces a history and passes no config, so this part *)
(* follows the specification: a dispatch loads the history of its session, *)
(* puts the system instructions before it and the query after it, runs the *)
(* graph of create_custom_agent with the session id in the config, and     *)
(* replaces the history with the turns the graph yields.  The store and    *)
(* the nodes of the graph are those of the source; the dispatches run      *)
(* concurrently, each suspended between any two of its steps.  Here pc,    *)
(* messages, config, request and loaded hold one value per dispatch.       *)
(***************************************************************************)
MaxDispatches == 2

Dispatches == 1..MaxDispatches

SessionKeys == {"s1", "s2"}

\* the text of a session id, as the config carries it
SessionText(key) == IF key = "s1" THEN CanonA ELSE CanonB

\* each dispatch asks a query of its own
DispatchQuery(d) == Rep("q", d)

SessionReplies ==
    { AIMessage(PyStr(<<>>),
                <<ToolCall(CallId(1), "consumption_recommend",
                           PyDict(<<QUERY>>, <<PyStr(QueryText)>>))>>),
      AIMessage(PyStr(Greeting), <<>>) }

InitSession ==
    /\ pc = [d \in Dispatches |-> "load"]
    /\ \E keys \in [Dispatches -> SessionKeys] :
          request = [d \in Dispatches |->
                        [query |-> DispatchQuery(d), session_id |-> keys[d]]]
    /\ messages = [d \in Dispatches |-> <<>>]
    /\ config = [d \in Dispatches |-> PyNone]
    /\ loaded = [d \in Dispatches |-> NotLoaded]
    /\ _store \in InitialStores
    /\ persisted = <<>>
    /\ wrapped_runs = 0
    /\ wrapped_input = <<>>
    /\ node_output = <<>>
    /\ raised = FALSE
    /\ response = NoResponse
    /\ tool_metadata = NoMetadata
    /\ normalized = PyNone
    /\ catalog = <<>>
    /\ requiring_names = {}
    /\ emitted = <<>>
    /\ model_calls = 0
    /\ tool_value = PyNone

\* load(session_id), and the turn sequence of the dispatch built from it
session_load ==
    \E d \in Dispatches :
        LET sid == request[d].session_id
        IN  /\ pc[d] = "load"
            /\ _store' = Fetched(_store, sid)
            /\ loaded' = [loaded EXCEPT ![d] = [session_id |-> sid, messages |-> _store'[sid]]]
            /\ messages' = [messages EXCEPT ![d] =
                               <<SystemMessage(PyStr(SystemPrompt))>> \o _store'[sid]
                               \o <<HumanMessage(PyStr(request[d].query))>>]
            /\ config' = [config EXCEPT ![d] = PyStr(SessionText(sid))]
            /\ pc' = [pc EXCEPT ![d] = "agent"]
            /\ UNCHANGED <<wrapped_runs, wrapped_input, node_output, raised, request,
                           response, tool_metadata, normalized, tool_value, persisted,
                   catalog, requiring_names, emitted, model_calls>>

\* agent_node and route_decision of the graph, on the turns of the dispatch
session_decide ==
    \E d \in Dispatches :
        /\ pc[d] = "agent"
        /\ \E reply \in SessionReplies :
              /\ messages' = [messages EXCEPT ![d] = Append(messages[d], reply)]
              /\ pc' = [pc EXCEPT ![d] = IF Len(reply.tool_calls) > 0 THEN "tools"
                                         ELSE "fallback"]
        /\ model_calls' = model_calls + 1
        /\ UNCHANGED <<config, wrapped_runs, wrapped_input, node_output, raised, request,
                       response, tool_metadata, normalized, tool_value, _store, persisted,
                       loaded,
                   catalog, requiring_names, emitted>>

\* the "tools" node with the config of the dispatch
session_tools ==
    \E d \in Dispatches :
        /\ pc[d] = "tools"
        /\ \E out \in ToolNodeOutputs(Inject(messages[d], config[d]), StubPayloads) :
              messages' = [messages EXCEPT ![d] = Inject(messages[d], config[d]) \o out]
        /\ wrapped_runs' = wrapped_runs + 1
        /\ pc' = [pc EXCEPT ![d] = "replace"]
        /\ UNCHANGED <<config, wrapped_input, node_output, raised, request, response,
                       tool_metadata, normalized, tool_value, _store, persisted, loaded,
                   catalog, requiring_names, emitted, model_calls>>

\* the "fallback" node
session_fallback ==
    \E d \in Dispatches :
        /\ pc[d] = "fallback"
        /\ messages' = [messages EXCEPT ![d] =
                           Append(messages[d], AIMessage(PyStr(DEFAULT_MSG), <<>>))]
        /\ pc' = [pc EXCEPT ![d] = "replace"]
        /\ UNCHANGED <<config, wrapped_runs, wrapped_input, node_output, raised, request,
                       response, tool_metadata, normalized, tool_value, _store, persisted,
                       loaded,
                   catalog, requiring_names, emitted, model_calls>>

\* replace(session_id, turns) with the turns after the system instructions
session_replace ==
    \E d \in Dispatches :
        LET sid == request[d].session_id
            turns == Tail(messages[d])
        IN  /\ pc[d] = "replace"
            /\ _store' = Persisted(_store, sid, turns)
            /\ persisted' = Append(persisted, [session_id |-> sid, messages |-> turns])
            /\ pc' = [pc EXCEPT ![d] = "done"]
            /\ UNCHANGED <<messages, config, wrapped_runs, wrapped_input, node_output,
                           raised, request, response, tool_metadata, normalized,
                           tool_value, loaded,
                   catalog, requiring_names, emitted, model_calls>>

NextSession ==
    \/ session_load
    \/ session_decide
    \/ session_tools
    \/ session_fallback
    \/ session_replace

SpecSession == InitSession /\ [][NextSession]_vars

(***************************************************************************)
(* The dispatch endpoint with the agent that lifespan stores in            *)
(* app.state.agent (core/setup.py): create_agent(llm, tools) of LangChain, *)
(* the loop model -> tools -> model that ends at the first model turn      *)
(* without requests.  It has no fallback node and no session injector.     *)
(***************************************************************************)
MaxModelCalls == 2

DeployedReplies ==
    {AIMessage(PyStr(<<>>), <<ToolCall(CallId(1), nm, PyDict(<<QUERY>>, <<PyStr(QueryText)>>))>>) :
        nm \in ReplyNames}
    \cup {AIMessage(PyStr(t), <<>>) : t \in {<<>>, Greeting}}

\* the number of model turns in the sequence
AiCount(msgs) == Cardinality({i \in 1..Len(msgs) : msgs[i].type = "ai"})

\* the model node: the model's turn is appended and the loop ends when it
\* carries no request; an exception of the model call, or the loop reaching
\* its recursion limit, is caught by nothing and ends the dispatch
model_node ==
    /\ pc = "agent"
    /\ \/ /\ AiCount(messages) < MaxModelCalls
          /\ \E reply \in DeployedReplies :
                /\ messages' = Append(messages, reply)
                /\ pc' = IF Len(reply.tool_calls) > 0 THEN "tools" ELSE "end"
          /\ UNCHANGED raised
       \/ /\ raised' = TRUE
          /\ pc' = "failed"
          /\ UNCHANGED messages
    /\ model_calls' = model_calls + 1
    /\ UNCHANGED <<config, wrapped_runs, wrapped_input, node_output, request, response,
                   tool_metadata, normalized>>
    /\ UNCHANGED <<tool_value, _store, persisted, loaded,
                   catalog, requiring_names, emitted>>

\* the tools node of the loop: ToolNode run on the state as it is; the
\* tool-result turns are appended and the model is asked again
tool_node ==
    /\ pc = "tools"
    /\ wrapped_input' = messages
    /\ wrapped_runs' = wrapped_runs + 1
    /\ \/ /\ \E out \in ToolNodeOutputs(messages, ToolPayloads) :
                /\ node_output' = out
                /\ messages' = messages \o out
          /\ pc' = "agent"
          /\ UNCHANGED raised
       \/ /\ raised' = TRUE
          /\ pc' = "failed"
          /\ UNCHANGED <<messages, node_output>>
    /\ UNCHANGED <<config, request, response, tool_metadata, normalized>>
    /\ UNCHANGED <<tool_value, _store, persisted, loaded,
                   catalog, requiring_names, emitted, model_calls>>

NextDeployed ==
    \/ dispatch
    \/ model_node
    \/ tool_node
    \/ dispatch_return

SpecDeployed == Init /\ [][NextDeployed]_vars

(***************************************************************************)
(* The extractor applied to exchanges whose one request is malformed: the  *)
(* id, the name or the args are missing, the args are a text (JSON or      *)
(* not) under "args" or "arguments", or name and arguments are nested in   *)
(* "function".  The tool-result turn is absent, or answers the request,    *)
(* another request or no request.                                          *)
(***************************************************************************)
RawCall(has, id, name, args, arguments, function) ==
    [has |-> has, id |-> id, name |-> name, args |-> args,
     arguments |-> arguments, function |-> function]

ArgTexts == {PyStr(JsonText), PyStr(GarbageText)}

FlatCalls ==
    {RawCall(ks \cup (IF a = PyNone THEN {} ELSE {"args"}),
             IF "id" \in ks THEN "X" ELSE None,
             IF "name" \in ks THEN CurName(1) ELSE None,
             a, PyNone, NoFunction) :
        ks \in SUBSET {"id", "name"}, a \in {PyNone, CurArgs(1)} \cup ArgTexts}

ArgumentsCalls ==
    {RawCall(ks \cup {"arguments"},
             IF "id" \in ks THEN "X" ELSE None,
             IF "name" \in ks THEN CurName(1) ELSE None,
             PyNone, a, NoFunction) :
        ks \in SUBSET {"id", "name"}, a \in ArgTexts}

NestedCalls ==
    {RawCall(ks \cup {"function"}, IF "id" \in ks THEN "X" ELSE None, None,
             PyNone, PyNone, [name |-> n, arguments |-> a]) :
        ks \in SUBSET {"id"}, n \in {None, CurName(1)}, a \in {PyNone} \cup ArgTexts}

MalformedCalls == FlatCalls \cup ArgumentsCalls \cup NestedCalls

MalformedResults ==
    {<<>>} \cup {<<ToolMessage(PyStr(JsonText), id, CurName(2))>> : id \in ExtractIds}

MalformedInputs ==
    {<<SystemMessage(PyStr(SystemPrompt)), HumanMessage(PyStr(QueryText)),
       AIMessage(PyStr(<<>>), <<c>>)>> \o r :
        c \in MalformedCalls, r \in MalformedResults}

InitMalformed ==
    /\ pc = "extract"
    /\ messages \in MalformedInputs
    /\ config = PyNone
    /\ wrapped_runs = 0
    /\ wrapped_input = <<>>
    /\ node_output = <<>>
    /\ raised = FALSE
    /\ request = NoRequest
    /\ response = NoResponse
    /\ tool_metadata = NoMetadata
    /\ normalized = PyNone
    /\ tool_value = PyNone
    /\ _store = NoSessions
    /\ persisted = <<>>
    /\ loaded = NotLoaded
    /\ catalog = <<>>
    /\ requiring_names = {}
    /\ emitted = <<>>
    /\ model_calls = 0

SpecMalformed == InitMalformed /\ [][NextExtract]_vars

(***************************************************************************)
(* Construction of the tool node: SessionInjectingToolNode(tools) over     *)
(* catalogs of up to MaxTools tools of every schema shape.                 *)
(***************************************************************************)
MaxTools == 2

ToolNames == {"a", "b", ""}

FieldSets == {{"query"}, {"query", "session_id"}}

CatalogTools ==
    {Tool(n, s, f) : n \in ToolNames, s \in ContainerShapes, f \in FieldSets}
    \cup {Tool(n, s, {}) : n \in ToolNames,
                           s \in UniterableShapes \cup {"none", "dict_missing", "other"}}

RECURSIVE CatalogsOf(_)
CatalogsOf(n) ==
    IF n = 0 THEN {<<>>}
    ELSE CatalogsOf(n - 1)
         \cup {Append(c, t) : c \in {k \in CatalogsOf(n - 1) : Len(k) = n - 1},
                              t \in CatalogTools}

InitCatalog ==
    /\ pc = "construct"
    /\ catalog \in CatalogsOf(MaxTools)
    /\ requiring_names = {}
    /\ raised = FALSE
    /\ messages = <<>>
    /\ config = PyNone
    /\ wrapped_runs = 0
    /\ wrapped_input = <<>>
    /\ node_output = <<>>
    /\ request = NoRequest
    /\ response = NoResponse
    /\ tool_metadata = NoMetadata
    /\ normalized = PyNone
    /\ tool_value = PyNone
    /\ _store = NoSessions
    /\ persisted = <<>>
    /\ loaded = NotLoaded
    /\ emitted = <<>>
    /\ model_calls = 0

\* SessionInjectingToolNode.__init__(tools)
__init__ ==
    /\ pc = "construct"
    /\ IF InitRaises(catalog)
       THEN /\ raised' = TRUE
            /\ pc' = "failed"
            /\ UNCHANGED requiring_names
       ELSE /\ requiring_names' = RequiringSessionId(catalog)
            /\ pc' = "constructed"
            /\ UNCHANGED raised
    /\ UNCHANGED <<messages, config, wrapped_runs, wrapped_input, node_output,
                   request, response, tool_metadata, normalized, tool_value,
                   _store, persisted, loaded, catalog, emitted, model_calls>>

NextCatalog == __init__

SpecCatalog == InitCatalog /\ [][NextCatalog]_vars

(***************************************************************************)
(* The streaming run AgentRunner.arun (agent/weather_agent.py), the        *)
(* generator that stream_dispatch hands to StreamingResponse.  It is       *)
(* suspended at every yield; emitted are the lines it has yielded.  The    *)
(* model's decision, the weather tool, the RAG tool's token stream and the *)
(* model's answer stream each succeed or raise an Exception; raised tells    *)
(* that one of them has.                                                   *)
(***************************************************************************)
MaxChunks == 2

PAYLOAD == <<"p", "a", "y", "l", "o", "a", "d">>

JSON_DATA == <<"j", "s", "o", "n", "_", "d", "a", "t", "a">>

TEXT_CHUNK == <<"t", "e", "x", "t", "_", "c", "h", "u", "n", "k">>

ERROR == <<"e", "r", "r", "o", "r">>

STREAM_END == <<"s", "t", "r", "e", "a", "m", "_", "e", "n", "d">>

END_OF_STREAM == <<"[", "E", "N", "D", "_", "O", "F", "_", "S", "T", "R", "E", "A", "M", "]">>

\* the texts of the exceptions, after the prefix the handler puts before them
ErrorTexts == {<<"E", ":", " ", "l", "l", "m">>, <<"E", ":", " ", "t", "o", "o", "l">>}

\* the tokens and the chunk contents of the streams; one holds a line break
\* and a quote, one is empty
StreamTokens == {<<"h", "i">>, <<"a", "\n", "\"">>, <<>>}

\* the strings the weather tool returns
WeatherTexts == {JsonText, GarbageText}

\* _yield_json_line(data) for data = {"type": type, "payload": payload}
_yield_json_line(type, payload) ==
    json_dumps(PyDict(<<TYPE, PAYLOAD>>, <<PyStr(type), payload>>)) \o <<"\n">>

InitStream ==
    /\ pc = "arun"
    /\ emitted = <<>>
    /\ raised = FALSE
    /\ model_calls = 0
    /\ request \in Requests
    /\ messages = <<>>
    /\ config = PyNone
    /\ wrapped_runs = 0
    /\ wrapped_input = <<>>
    /\ node_output = <<>>
    /\ response = NoResponse
    /\ tool_metadata = NoMetadata
    /\ normalized = PyNone
    /\ tool_value = PyNone
    /\ _store = NoSessions
    /\ persisted = <<>>
    /\ loaded = NotLoaded
    /\ catalog = <<>>
    /\ requiring_names = {}

\* lines 277-302 and 325-327: the router model decides; a tool call that
\* names neither tool raises ValueError
arun_decide ==
    /\ pc = "arun"
    /\ messages' = <<SystemMessage(PyStr(SystemPrompt)), HumanMessage(PyStr(request.query))>>
    /\ model_calls' = model_calls + 1
    /\ pc' \in {"weather", "rag", "direct", "except"}
    /\ raised' = (pc' = "except")
    /\ UNCHANGED <<config, wrapped_runs, wrapped_input, node_output, request,
                   response, tool_metadata, normalized, tool_value, _store, persisted,
                   loaded, catalog, requiring_names, emitted>>

\* lines 304-314: the weather tool's string is decoded and emitted as one
\* json_data line; the tool call or json.loads raises
arun_weather ==
    /\ pc = "weather"
    /\ \/ \E text \in WeatherTexts :
             IF json_loads(text).ok
             THEN /\ emitted' = Append(emitted, _yield_json_line(JSON_DATA, json_loads(text).val))
                  /\ pc' = "finally"
             ELSE /\ pc' = "except"
                  /\ UNCHANGED emitted
       \/ /\ pc' = "except"
          /\ UNCHANGED emitted
    /\ raised' = (pc' = "except")
    /\ UNCHANGED <<messages, config, wrapped_runs, wrapped_input, node_output,
                   request, response, tool_metadata, normalized, tool_value, _store,
                   persisted, loaded, catalog, requiring_names, model_calls>>

\* lines 316-323: every token of the RAG tool is emitted as a text_chunk
\* line, until the tool's generator ends or raises
arun_rag ==
    /\ pc = "rag"
    /\ \/ /\ Len(emitted) < MaxChunks
          /\ \E token \in StreamTokens :
                emitted' = Append(emitted, _yield_json_line(TEXT_CHUNK, PyStr(token)))
          /\ pc' = "rag"
       \/ /\ pc' \in {"finally", "except"}
          /\ UNCHANGED emitted
    /\ raised' = (pc' = "except")
    /\ UNCHANGED <<messages, config, wrapped_runs, wrapped_input, node_output,
                   request, response, tool_metadata, normalized, tool_value, _store,
                   persisted, loaded, catalog, requiring_names, model_calls>>

\* lines 329-339: every chunk of the model's stream that has content is
\* emitted as a text_chunk line, until the stream ends or raises
arun_direct ==
    /\ pc = "direct"
    /\ \/ /\ Len(emitted) < MaxChunks
          /\ \E content \in StreamTokens :
                emitted' = IF content # <<>>
                           THEN Append(emitted, _yield_json_line(TEXT_CHUNK, PyStr(content)))
                           ELSE emitted
          /\ pc' = "direct"
       \/ /\ pc' \in {"finally", "except"}
          /\ UNCHANGED emitted
    /\ raised' = (pc' = "except")
    /\ UNCHANGED <<messages, config, wrapped_runs, wrapped_input, node_output,
                   request, response, tool_metadata, normalized, tool_value, _store,
                   persisted, loaded, catalog, requiring_names, model_calls>>

\* lines 341-345: the handler emits one error line
arun_except ==
    /\ pc = "except"
    /\ \E e \in ErrorTexts : emitted' = Append(emitted, _yield_json_line(ERROR, PyStr(e)))
    /\ pc' = "finally"
    /\ UNCHANGED <<messages, config, wrapped_runs, wrapped_input, node_output, raised,
                   request, response, tool_metadata, normalized, tool_value, _store,
                   persisted, loaded, catalog, requiring_names, model_calls>>

\* a variant that ends the stream only after a run without failure
FinallyOnSuccessOnly ==
    /\ pc = "finally"
    /\ emitted' = IF raised THEN emitted
                  ELSE Append(emitted, _yield_json_line(STREAM_END, PyStr(END_OF_STREAM)))
    /\ pc' = "closed"
    /\ UNCHANGED <<messages, config, wrapped_runs, wrapped_input, node_output, raised,
                   request, response, tool_metadata, normalized, tool_value, _store,
                   persisted, loaded, catalog, requiring_names, model_calls>>

\* lines 347-352: the stream_end line, emitted on every path
arun_finally ==
    /\ pc = "finally"
    /\ emitted' = Append(emitted, _yield_json_line(STREAM_END, PyStr(END_OF_STREAM)))
    /\ pc' = "closed"
    /\ UNCHANGED <<messages, config, wrapped_runs, wrapped_input, node_output, raised,
                   request, response, tool_metadata, normalized, tool_value, _store,
                   persisted, loaded, catalog, requiring_names, model_calls>>

NextStream ==
    \/ arun_decide
    \/ arun_weather
    \/ arun_rag
    \/ arun_direct
    \/ arun_except
    \/ arun_finally

SpecStream == InitStream /\ [][NextStream]_vars

(***************************************************************************)
(* Properties of the Session Injector, checked under SpecNode.             *)
(***************************************************************************)
Requiring(call) == call.name \in tools_requiring_session_id

\* the config carries a session id that uuid.UUID accepts
ValidConfig == Truthy(config) /\ UuidParses(PyStrOf(config))

\* text in the canonical form: lower-case hex digits grouped 8-4-4-4-12
IsCanonical(text) ==
    /\ Len(text) = 36
    /\ \A i \in 1..36 :
          IF i \in {9, 14, 19, 24} THEN text[i] = "-" ELSE text[i] \in LowerHex

\* two texts that denote the same UUID
SameUuid(a, b) ==
    LET ha == UuidHexOf(a)
        hb == UuidHexOf(b)
    IN  /\ Len(ha) = Len(hb)
        /\ \A i \in 1..Len(ha) : ToLowerHex(ha[i]) = ToLowerHex(hb[i])

\* C1 as stated: after the injector ran with a valid session id s, every
\* request of the last turn for a session-requiring tool has
\* args["session_id"] equal to s, the very text the caller supplied.
C1_InjectedEqualsSuppliedText ==
    (wrapped_runs >= 1 /\ ValidConfig) =>
        \A i \in 1..Len(LastCalls(messages)) :
            Requiring(LastCalls(messages)[i]) =>
                /\ LastCalls(messages)[i].args.t = "dict"
                /\ HasKey(LastCalls(messages)[i].args, SESSION_ID)
                /\ DictGet(LastCalls(messages)[i].args, SESSION_ID) = config

\* C1 as amended: after the injector ran with a valid session id s, every
\* request of the last turn for a session-requiring tool has
\* args["session_id"] equal to the canonical text of the UUID s denotes
\* (lower case, grouped 8-4-4-4-12), whatever value was there before; it
\* is s itself when s is already in that form.
C1_InjectedEqualsCanonicalId ==
    (wrapped_runs >= 1 /\ ValidConfig) =>
        \A i \in 1..Len(LastCalls(messages)) :
            Requiring(LastCalls(messages)[i]) =>
                /\ LastCalls(messages)[i].args.t = "dict"
                /\ HasKey(LastCalls(messages)[i].args, SESSION_ID)
                /\ LET v == DictGet(LastCalls(messages)[i].args, SESSION_ID)
                   IN  /\ v.t = "str"
                       /\ IsCanonical(v.s)
                       /\ SameUuid(v.s, config.s)
                       /\ IsCanonical(config.s) => v = config

\* a request that carried the model's own session id (CanonB) and a query
\* now carries the canonical text of the caller's upper-case id
C1_Witness ==
    /\ wrapped_runs = 1
    /\ config = PyStr(UpperA)
    /\ \E i \in 1..Len(LastCalls(messages)) :
          /\ Requiring(LastCalls(messages)[i])
          /\ LastCalls(messages)[i].args =
                PyDict(<<SESSION_ID, QUERY>>, <<PyStr(CanonA), PyStr(QueryText)>>)

\* C2: a step of the injector leaves the args of every request of the last
\* turn whose tool is not in the session-requiring set as they were.
C2_OtherToolsArgsUnchanged ==
    [][\A i \in 1..Len(LastCalls(messages)) :
          ~Requiring(LastCalls(messages)[i]) =>
              /\ Len(LastCalls(messages')) >= i
              /\ LastCalls(messages')[i].args = LastCalls(messages)[i].args]_vars

\* the injector ran with a valid id on a turn with a session-requiring
\* request, which got the id, and a request for another tool, which did not
C2_Witness ==
    /\ wrapped_runs = 1
    /\ ValidConfig
    /\ Len(LastCalls(messages)) = 2
    /\ Requiring(LastCalls(messages)[1])
    /\ HasKey(LastCalls(messages)[1].args, SESSION_ID)
    /\ LastCalls(messages)[2].name = "query_faq_database"
    /\ LastCalls(messages)[2].args = PyDict(<<QUERY>>, <<PyStr(QueryText)>>)

C4_InjectionIdempotent ==
    [][wrapped_runs >= 1 => messages' = messages]_vars

\* the injector ran twice with a valid id over a request that had a session
\* id of the model's
C4_Witness ==
    /\ wrapped_runs = 2
    /\ ValidConfig
    /\ \E i \in 1..Len(LastCalls(messages)) :
          /\ Requiring(LastCalls(messages)[i])
          /\ LastCalls(messages)[i].args =
                PyDict(<<SESSION_ID, QUERY>>, <<PyStr(CanonA), PyStr(QueryText)>>)

\* C5: a step of the injector keeps the number of turns, every turn but the
\* last, and in the last turn everything but the requests' args: the
\* number and order of the requests and each request's id and name.
C5_OnlyArgsOfLastTurnChange ==
    [][/\ Len(messages') = Len(messages)
       /\ \A k \in 1..Len(messages) :
             IF k < Len(messages) THEN messages'[k] = messages[k]
             ELSE /\ messages'[k].type = messages[k].type
                  /\ messages'[k].content = messages[k].content
                  /\ messages'[k].tool_call_id = messages[k].tool_call_id
                  /\ messages'[k].name = messages[k].name
                  /\ Len(messages'[k].tool_calls) = Len(messages[k].tool_calls)
                  /\ \A i \in 1..Len(messages[k].tool_calls) :
                        /\ messages'[k].tool_calls[i].id = messages[k].tool_calls[i].id
                        /\ messages'[k].tool_calls[i].name = messages[k].tool_calls[i].name]_vars

\* the last turn's request got the caller's id while the request of the
\* older exchange, for the same tool, still has the id it had
C5_Witness ==
    /\ wrapped_runs = 1
    /\ config = PyStr(CanonA)
    /\ Len(messages) = 6
    /\ messages[3].tool_calls = <<OlderCall>>
    /\ Len(LastCalls(messages)) = 2
    /\ LastCalls(messages)[2].name = "consumption_recommend"
    /\ LastCalls(messages)[2].id = "call_2"
    /\ DictGet(LastCalls(messages)[2].args, SESSION_ID) = PyStr(CanonA)

(***************************************************************************)
(* Properties of the Tool-Call Extractor, checked under SpecExtract.       *)
(***************************************************************************)
\* the place of the most recent user turn, 0 when there is none
LastHuman(msgs) ==
    IF \E i \in 1..Len(msgs) : msgs[i].type = "human"
    THEN CHOOSE i \in 1..Len(msgs) :
            msgs[i].type = "human" /\ \A j \in (i + 1)..Len(msgs) : msgs[j].type # "human"
    ELSE 0

\* the places of the turns of the current exchange and of the earlier ones
CurrentTurns(msgs) == (LastHuman(msgs) + 1)..Len(msgs)

EarlierTurns(msgs) == 1..(LastHuman(msgs) - 1)

HasToolActivity(msgs, places) ==
    \E k \in places : msgs[k].type = "tool" \/ msgs[k].tool_calls # <<>>

RequestsIn(msgs, places) ==
    UNION {{msgs[k].tool_calls[i] : i \in 1..Len(msgs[k].tool_calls)} : k \in places}

ResultsIn(msgs, places) == {msgs[k] : k \in {j \in places : msgs[j].type = "tool"}}

\* what the summary shows for a content: its decoding, or the content itself
Shown(content) ==
    IF _deserialize_tool_content(content) # PyNone
    THEN _deserialize_tool_content(content) ELSE content

\* C7: when an older exchange with tool activity is followed by a user turn,
\* an assistant turn with requests and a tool-result turn, every field of
\* the summary is a value of the newer exchange: the name of one of its
\* tool-results or requests, the args and the id of one of its requests,
\* the content of one of its tool-results.
C7_SummaryFromCurrentExchangeOnly ==
    (/\ pc = "extracted"
     /\ HasToolActivity(messages, EarlierTurns(messages))
     /\ RequestsIn(messages, CurrentTurns(messages)) # {}
     /\ ResultsIn(messages, CurrentTurns(messages)) # {}) =>
        /\ tool_metadata.has # {}
        /\ "tool_name" \in tool_metadata.has =>
              tool_metadata.tool_name \in
                  {r.name : r \in ResultsIn(messages, CurrentTurns(messages))}
                  \cup {c.name : c \in RequestsIn(messages, CurrentTurns(messages))}
        /\ "tool_args" \in tool_metadata.has =>
              tool_metadata.tool_args \in
                  {c.args : c \in RequestsIn(messages, CurrentTurns(messages))}
        /\ "tool_call_id" \in tool_metadata.has =>
              tool_metadata.tool_call_id \in
                  {c.id : c \in RequestsIn(messages, CurrentTurns(messages))}
        /\ "tool_response_content" \in tool_metadata.has =>
              tool_metadata.tool_response_content \in
                  {Shown(r.content) : r \in ResultsIn(messages, CurrentTurns(messages))}

\* the newer exchange's tool-result names no request, so that no pairing key
\* is set when the scan reaches the user turn; the summary is the newer
\* exchange's all the same
C7_Witness ==
    /\ pc = "extracted"
    /\ messages = History \o
          << HumanMessage(PyStr(QueryText)),
             AIMessage(PyStr(<<>>), <<ToolCall("X", CurName(1), CurArgs(1))>>),
             ToolMessage(ResultContent(None), None, CurName(1)) >>
    /\ tool_metadata.has = {"tool_name", "tool_args", "tool_call_id", "tool_response_content"}
    /\ tool_metadata.tool_args = CurArgs(1)
    /\ tool_metadata.tool_call_id = "X"

\* C8: when the turns after the most recent user turn hold no request and
\* no tool-result, the extractor returns None, whatever the earlier
\* exchanges hold.
C8_NoneWhenNoToolRanInCurrentExchange ==
    (/\ pc = "extracted"
     /\ LastHuman(messages) > 0
     /\ ~HasToolActivity(messages, CurrentTurns(messages))) =>
        tool_metadata = NoMetadata

\* the requests of the turn sequence [.., user, assistant, tool-result]
\* whose tool-result answers the request with id X
PairedTurns ==
    /\ Len(messages) >= 3
    /\ LastHuman(messages) = Len(messages) - 2
    /\ messages[Len(messages) - 1].type = "ai"
    /\ messages[Len(messages)].type = "tool"
    /\ messages[Len(messages)].tool_call_id = "X"
    /\ LET calls == messages[Len(messages) - 1].tool_calls
       IN  /\ \E i \in 1..Len(calls) : calls[i].id = "X"
           /\ \A i \in 1..Len(calls) : TruthyId(calls[i].id)
           /\ \A i, j \in 1..Len(calls) : calls[i].id = calls[j].id => i = j

RequestX ==
    LET calls == messages[Len(messages) - 1].tool_calls
    IN  calls[CHOOSE i \in 1..Len(calls) : calls[i].id = "X"]

\* C9: for [user, assistant with requests of which one has id X,
\* tool-result answering X], where the tool-result carries no name or the
\* name of request X, the summary has X as tool_call_id, the name and the
\* args of request X, and the normalized content of the tool-result.
C9_SummaryPairsRequestAndResult ==
    (/\ pc = "extracted"
     /\ PairedTurns
     /\ messages[Len(messages)].name \in {None, RequestX.name}) =>
        /\ tool_metadata.has = {"tool_name", "tool_args", "tool_call_id", "tool_response_content"}
        /\ tool_metadata.tool_call_id = "X"
        /\ tool_metadata.tool_name = RequestX.name
        /\ tool_metadata.tool_args = RequestX.args
        /\ tool_metadata.tool_response_content = Shown(messages[Len(messages)].content)

(***************************************************************************)
(* Properties of the Result Normalizer, checked under SpecNormalize.       *)
(***************************************************************************)
\* the text of the tool-result turn the normalizer is applied to
RawContent == messages[Len(messages)].content

\* no candidate substring of the text decodes as JSON
NoCandidateDecodes(text) ==
    LET cands == _candidate_json_strings(_strip_code_fences(Strip(text, PyWs)))
    IN  \A i \in 1..Len(cands) : cands[i] = <<>> \/ ~json_loads(cands[i]).ok

\* C10 as stated: for a text of which no candidate decodes, the normalizer
\* returns the text itself, not None.
C10_NormalizerReturnsGarbageUnchanged ==
    (pc # "normalize" /\ NoCandidateDecodes(RawContent.s)) => normalized = RawContent

\* C10 as amended: for a text of which no candidate decodes, the normalizer
\* returns None without raising, and the extractor then records the text
\* itself, unchanged, as tool_response_content.
C10_ExtractorKeepsGarbageUnchanged ==
    (pc # "normalize" /\ NoCandidateDecodes(RawContent.s)) =>
        /\ normalized = PyNone
        /\ ~raised
        /\ pc = "extracted" =>
              /\ "tool_response_content" \in tool_metadata.has
              /\ tool_metadata.tool_response_content = RawContent

\* "not json at all" went through the normalizer and the extractor
C10_Witness ==
    /\ pc = "extracted"
    /\ RawContent = PyStr(NotJsonAtAll)
    /\ NoCandidateDecodes(NotJsonAtAll)
    /\ normalized = PyNone
    /\ tool_metadata.tool_response_content = PyStr(NotJsonAtAll)

(***************************************************************************)
(* Properties of a whole dispatch, checked under Spec.                     *)
(***************************************************************************)
\* the turn the model produced in this dispatch: the third of the sequence
ModelTurn == messages[3]

\* C6: after a dispatch whose request carries a valid session id and in
\* which every request of the model's turn names a session-requiring tool,
\* the summary extracted from the resulting turn sequence has tool_args
\* with session_id equal to the session id of the request.
C6_SummaryCarriesSuppliedSessionId ==
    (/\ pc = "done"
     /\ Truthy(request.session_id)
     /\ UuidParses(PyStrOf(request.session_id))
     /\ ModelTurn.tool_calls # <<>>
     /\ \A i \in 1..Len(ModelTurn.tool_calls) : Requiring(ModelTurn.tool_calls[i])) =>
        LET summary == parse_tool_from_messages(messages)
        IN  /\ "tool_args" \in summary.has
            /\ HasKey(summary.tool_args, SESSION_ID)
            /\ DictGet(summary.tool_args, SESSION_ID) = request.session_id

(***************************************************************************)
(* Properties of the normalizer on encoded tool results, checked under     *)
(* SpecRoundTrip.                                                          *)
(***************************************************************************)
\* C11: for every JSON-serializable value v (null, booleans, numbers,
\* strings, the empty one and those starting with a fence or holding braces
\* among them, arrays, objects), the normalizer applied to the JSON encoding
\* of v returns v.
C11_NormalizerRoundTrip ==
    (pc = "extract" /\ RawContent = PyStr(json_dumps(tool_value))) =>
        normalized = tool_value

\* the string that starts with a code fence went through the round trip
C11_Witness ==
    /\ pc = "extract"
    /\ tool_value = PyStr(Fence \o <<"a">>)
    /\ RawContent = PyStr(json_dumps(tool_value))
    /\ normalized = tool_value

IsFenced(content) == content.t = "str" /\ StartsWith(content.s, Fence)

\* C12: for any JSON object or array text wrapped in a triple-backtick code
\* fence, with or without a language tag, the normalizer returns the decoded
\* value.
C12_FencedTextDecodes ==
    (pc = "extract" /\ IsFenced(RawContent) /\ tool_value.t \in {"list", "dict"}) =>
        normalized = tool_value

DecodesAlone(chunk) == json_loads(DictGet(chunk, TEXT).s).ok

\* C13: for a non-empty sequence of text fragments, the normalizer returns
\* the JSON decoding of the fragments' texts concatenated in order, also
\* when no single fragment is valid JSON on its own.
C13_FragmentsDecodeAsConcatenation ==
    (pc = "extract" /\ RawContent.t = "list") =>
        normalized = tool_value

\* an object cut into two fragments, neither of them JSON on its own
C13_Witness ==
    /\ pc = "extract"
    /\ RawContent.t = "list"
    /\ Len(RawContent.kids) = 2
    /\ \A i \in 1..2 : ~DecodesAlone(RawContent.kids[i])
    /\ tool_value = PyDict(<<<<"a">>>>, <<One>>)
    /\ normalized = tool_value

(***************************************************************************)
(* Properties of the history store, checked under SpecHistory.             *)
(***************************************************************************)
\* the calls of one session id that wrote: both arguments non-empty
WritesOf(calls, session_id) ==
    SelectSeq(calls, LAMBDA c : c.session_id = session_id /\ c.session_id # ""
                                /\ c.messages # <<>>)

\* the turns of the most recent writing call for the id; none when there is
\* no such call
LastReplaced(calls, session_id) ==
    LET w == WritesOf(calls, session_id)
    IN  IF w = <<>> THEN <<>> ELSE w[Len(w)].messages

\* C14: after any sequence of persist_history calls, get_history of a
\* session id returns exactly the turns of the most recent call for that id
\* whose arguments were both non-empty, with no turn of an earlier call kept
\* or merged in.
C14_LoadReturnsLastReplace ==
    [][get_history => loaded'.messages = LastReplaced(persisted, loaded'.session_id)]_vars

\* replace(s1, [t1, t2]), then replace(s1, [t3]), then load(s1) = [t3]
C14_Witness ==
    /\ Len(persisted) = 2
    /\ persisted[1] = [session_id |-> "s1", messages |-> <<T1, T2>>]
    /\ persisted[2] = [session_id |-> "s1", messages |-> <<T3>>]
    /\ loaded = [session_id |-> "s1", messages |-> <<T3>>]

\* the arguments of the persist_history call a step makes
LastCall == persisted'[Len(persisted')]

\* C15: persist_history with an empty session id or an empty turn sequence
\* leaves the whole session map unchanged: it clears or shortens no stored
\* history and creates no session record.
C15_EmptyWriteIsNoOp ==
    [][(persist_history /\ (LastCall.session_id = "" \/ LastCall.messages = <<>>)) =>
          _store' = _store]_vars

\* replace(s1, [t1, t2]), then replace(s1, []), then load(s1) = [t1, t2]
C15_Witness ==
    /\ Len(persisted) = 2
    /\ persisted[1] = [session_id |-> "s1", messages |-> <<T1, T2>>]
    /\ persisted[2] = [session_id |-> "s1", messages |-> <<>>]
    /\ loaded = [session_id |-> "s1", messages |-> <<T1, T2>>]
    /\ DOMAIN _store = {"s1"}

(***************************************************************************)
(* Properties of the graph of create_custom_agent, checked under Spec, and *)
(* of the dispatch as lifespan wires it, checked under SpecDeployed.       *)
(***************************************************************************)
\* the turn fallback_node returns
CannedTurn == AIMessage(PyStr(DEFAULT_MSG), <<>>)

HasCannedTurn(msgs) == \E i \in 1..Len(msgs) : msgs[i] = CannedTurn

\* C16: after the agent node the next node is tools if and only if the
\* turn the model just produced carries at least one request, and fallback
\* otherwise; no dispatch runs both the tools node and the fallback node.
C16_RouteFollowsRequests ==
    [][/\ pc = "route" =>
            /\ pc' = "tools" <=> Len(ModelTurn.tool_calls) >= 1
            /\ pc' = "fallback" <=> Len(ModelTurn.tool_calls) = 0
       /\ ~(wrapped_runs' > 0 /\ HasCannedTurn(messages'))]_vars

\* a model turn with two requests went to the tools node and to the end
C16_Witness ==
    /\ pc = "end"
    /\ Len(ModelTurn.tool_calls) = 2
    /\ wrapped_runs = 1
    /\ ~HasCannedTurn(messages)

\* C17: when the model's turn carries no request, the answer of the
\* dispatch is the canned fallback text whatever the model wrote.
C17_NoToolPathAnswersCannedText ==
    (pc = "done" /\ ModelTurn.tool_calls = <<>>) => response.answer = DEFAULT_MSG

\* the assistant turns of a sequence, in order
AiTurns(msgs) == SelectSeq(msgs, LAMBDA m : m.type = "ai")

\* C18 as stated: on the fallback path the sequence at the end holds the
\* canned assistant turn instead of the model's reply, not in addition to it.
C18_ReplyReplacedByCannedTurn ==
    (pc \in {"end", "done"} /\ ModelTurn.tool_calls = <<>>) =>
        AiTurns(messages) = <<CannedTurn>>

\* C18 as amended: on the fallback path the sequence at the end keeps the
\* model's reply and has the canned assistant turn appended after it as its
\* last turn, so that the answer is the canned text.
C18_CannedTurnAppendedAfterReply ==
    (pc \in {"end", "done"} /\ ModelTurn.tool_calls = <<>>) =>
        /\ Len(messages) = 4
        /\ ModelTurn \in ModelReplies
        /\ messages[4] = CannedTurn
        /\ AiTurns(messages) = <<ModelTurn, CannedTurn>>
        /\ pc = "done" => response.answer = DEFAULT_MSG

\* the model wrote a greeting and the dispatch answered the canned text
C18_Witness ==
    /\ pc = "done"
    /\ ModelTurn = AIMessage(PyStr(Greeting), <<>>)
    /\ messages[4] = CannedTurn
    /\ response.answer = DEFAULT_MSG

\* C19: a failure in the agent node or in the tools node never leads to
\* the fallback node and is never answered with the canned text: the
\* dispatch ends as a failure without a response, and the canned turn is
\* appended only when the model's turn carries no request.
C19_FailureNeverFallsBack ==
    /\ raised => /\ pc = "failed"
                 /\ response = NoResponse
                 /\ ~HasCannedTurn(messages)
    /\ HasCannedTurn(messages) => /\ ~raised
                                  /\ ModelTurn.tool_calls = <<>>
    /\ pc = "fallback" => ModelTurn.tool_calls = <<>>

\* the tools node raised: the dispatch failed
C19_Witness ==
    /\ raised
    /\ pc = "failed"
    /\ wrapped_runs = 1
    /\ ModelTurn.tool_calls # <<>>

\* C20: a dispatch that fails writes nothing to the history store: every
\* step of a dispatch short of its return, the failing one among them,
\* leaves the session map as it was and calls persist_history not once.
C20_FailedDispatchWritesNothing ==
    [][pc' # "done" => (_store' = _store /\ persisted' = persisted)]_vars

\* the tools node raised with a session stored: the map is as it was
C20_Witness ==
    /\ pc = "failed"
    /\ raised
    /\ wrapped_runs = 1
    /\ _store = Replace(NoSessions, "s1", <<T1, T2>>)
    /\ persisted = <<>>

\* the model's decision is complete: its turn is the third of the sequence
Decided == Len(messages) >= 3 /\ messages[3].type = "ai"

\* the tools node or the fallback node has completed
Executed == wrapped_runs > 0 \/ HasCannedTurn(messages)

\* C21: within one dispatch the model's decision completes before the tools
\* node or the fallback node starts, and a write of the dispatch to the
\* history store happens only after the tools node or the fallback node has
\* completed; no step reorders the three.
C21_DecideThenExecuteThenWrite ==
    [][/\ pc' \in {"tools", "fallback"} => Decided
       /\ (tools_node \/ fallback_node) => (Decided /\ ~Executed)
       /\ (_store' # _store \/ persisted' # persisted) => Executed]_vars

\* the model decided, then the tools node ran, then the dispatch returned
\* with the session map as it found it
C21_Witness ==
    /\ pc = "done"
    /\ Decided
    /\ wrapped_runs = 1
    /\ Len(messages) > 3
    /\ messages[4].type = "tool"
    /\ persisted = <<>>

(***************************************************************************)
(* Properties of dispatches with a history, checked under SpecSession.     *)
(***************************************************************************)
\* the history the store holds for the session of a dispatch
StoredFor(d) ==
    IF request[d].session_id \in DOMAIN _store THEN _store[request[d].session_id]
    ELSE <<>>

\* the stored history of its session holds the user turn of the dispatch
HoldsTurnsOf(d) ==
    \E i \in 1..Len(StoredFor(d)) :
        StoredFor(d)[i] = HumanMessage(PyStr(request[d].query))

\* two dispatches of one session loaded the same history and both replaced it
Raced(d1, d2) ==
    /\ d1 # d2
    /\ request[d1].session_id = request[d2].session_id
    /\ pc[d1] = "done"
    /\ pc[d2] = "done"
    /\ loaded[d1].messages = loaded[d2].messages

MentionsSession(msgs, text) ==
    \E k \in 1..Len(msgs) :
        \E i \in 1..Len(msgs[k].tool_calls) :
            LET args == msgs[k].tool_calls[i].args
            IN  /\ args.t = "dict"
                /\ HasKey(args, SESSION_ID)
                /\ DictGet(args, SESSION_ID) = PyStr(text)

\* C23: over any sequence of dispatches of one session, the turn sequence
\* handed to the model never contains the session id of the caller.
C23_ModelNeverSeesSessionId ==
    \A d \in Dispatches :
        pc[d] = "agent" =>
            ~MentionsSession(messages[d], SessionText(request[d].session_id))

(***************************************************************************)
(* Properties of the tool node's construction, checked under SpecCatalog.  *)
(***************************************************************************)
\* one of the three supported schema shapes declares a session_id field
Declares(t) == t.shape \in {"v2", "v1", "dict"} /\ "session_id" \in t.fields

\* C24: building the session-requiring set never fails, and a tool is in the
\* set exactly when it has a name and one of the three supported schema
\* shapes declares a session_id field; every other tool, a raw mapping whose
\* properties entry is missing or is not a mapping included, is left out
C24_CatalogBuildNeverFails ==
    pc # "construct" =>
        /\ ~raised
        /\ requiring_names =
              {catalog[i].name : i \in {j \in 1..Len(catalog) :
                  TruthyId(catalog[j].name) /\ Declares(catalog[j])}}

(***************************************************************************)
(* Properties of the extractor on malformed requests, checked under        *)
(* SpecMalformed.                                                          *)
(***************************************************************************)
TheCall == messages[3].tool_calls[1]

\* the pieces the request makes available, wherever it keeps them
AvailableId == IF "id" \in TheCall.has THEN TheCall.id ELSE None

AvailableName ==
    IF "name" \in TheCall.has THEN TheCall.name
    ELSE IF "function" \in TheCall.has THEN TheCall.function.name
    ELSE None

AvailableArgs ==
    IF "args" \in TheCall.has THEN TheCall.args
    ELSE IF "arguments" \in TheCall.has THEN TheCall.arguments
    ELSE IF "function" \in TheCall.has THEN TheCall.function.arguments
    ELSE PyNone

\* the request is not one that answers to another tool-result turn
Considered ==
    Len(messages) = 3 \/ messages[4].tool_call_id \in {None, AvailableId}
                      \/ AvailableId = None

\* C25: on a request with a missing id, a missing name, args that are a
\* non-JSON text, or the nested function shape, the extractor returns a
\* summary in which the missing pieces are absent and the available ones
\* are present; args that are a non-JSON text are kept as that text
C25_MalformedRequestDegrades ==
    (pc = "extracted" /\ Considered) =>
        /\ "tool_call_id" \in tool_metadata.has <=> AvailableId # None
        /\ "tool_call_id" \in tool_metadata.has => tool_metadata.tool_call_id = AvailableId
        /\ "tool_args" \in tool_metadata.has <=> AvailableArgs # PyNone
        /\ AvailableArgs = PyStr(GarbageText) => tool_metadata.tool_args = PyStr(GarbageText)
        /\ AvailableArgs = PyStr(JsonText) => tool_metadata.tool_args = PyDict(<<<<"a">>>>, <<PyInt(<<"1">>)>>)
        /\ AvailableArgs = CurArgs(1) => tool_metadata.tool_args = CurArgs(1)
        /\ Len(messages) = 3 =>
              /\ "tool_name" \in tool_metadata.has <=> AvailableName # None
              /\ "tool_name" \in tool_metadata.has => tool_metadata.tool_name = AvailableName
        /\ Len(messages) > 3 => tool_metadata.tool_name = messages[4].name
        /\ "tool_response_content" \in tool_metadata.has <=> Len(messages) > 3

C25_Witness ==
    /\ pc = "extracted"
    /\ Len(messages) = 3
    /\ TheCall.has = {"function"}
    /\ TheCall.function.name = CurName(1)
    /\ TheCall.function.arguments = PyStr(GarbageText)
    /\ tool_metadata.has = {"tool_name", "tool_args"}
    /\ tool_metadata.tool_name = CurName(1)
    /\ tool_metadata.tool_args = PyStr(GarbageText)

(***************************************************************************)
(* Termination of a dispatch of the graph, checked under SpecFair.         *)
(***************************************************************************)
CannedCount(msgs) == Cardinality({i \in 1..Len(msgs) : msgs[i] = CannedTurn})

\* the tools node, or else the fallback node, has run, and has run once
OneExecution ==
    \/ wrapped_runs = 1 /\ CannedCount(messages) = 0
    \/ wrapped_runs = 0 /\ CannedCount(messages) = 1

Bounded ==
    /\ model_calls <= 1
    /\ wrapped_runs <= 1
    /\ pc = "agent" => (wrapped_runs = 0 /\ model_calls = 0)
    /\ pc \in {"end", "done"} => (model_calls = 1 /\ OneExecution)

\* C26: every dispatch terminates; it reaches end after exactly one run of
\* the agent node and exactly one of the tools node and the fallback node;
\* the agent node is never entered after the tools node, and the model is
\* invoked at most once in a dispatch
C26_DispatchTerminates == []Bounded /\ <>(pc \in {"done", "failed"})

C26_Witness ==
    /\ pc = "done"
    /\ model_calls = 1
    /\ wrapped_runs = 1
    /\ messages[Len(messages)].type = "tool"

(***************************************************************************)
(* The order of the candidates, checked under SpecNormalize.               *)
(***************************************************************************)
\* the text of the tool-result turn as _loads_json_string cleans it
CleanedText == _strip_code_fences(Strip(RawContent.s, PyWs))

\* json.loads of a span; a span that was not found decodes to nothing
SpanDecoding(start_char, end_char) ==
    LET span == _extract_span(CleanedText, start_char, end_char)
    IN  IF span = <<>> THEN [ok |-> FALSE, val |-> PyNone] ELSE json_loads(span)

\* the whole text does not decode, the object span and the array span do
OnlySpansDecode ==
    /\ RawContent.s # <<>>
    /\ ~json_loads(CleanedText).ok
    /\ SpanDecoding("{", "}").ok
    /\ SpanDecoding("[", "]").ok

\* C27: the candidates are tried in the order whole cleaned text, object
\* span, array span, and the first that decodes is returned: the whole when
\* it decodes, else the object span when it decodes (also when the array
\* span around it decodes too), else the array span; None when no candidate
\* decodes or the text is empty
C27_FirstDecodingCandidateWins ==
    (pc = "extract" /\ RawContent.t = "str") =>
        LET whole == json_loads(CleanedText)
            object == SpanDecoding("{", "}")
            array == SpanDecoding("[", "]")
        IN  normalized =
                IF RawContent.s = <<>> THEN PyNone
                ELSE IF whole.ok THEN whole.val
                ELSE IF object.ok THEN object.val
                ELSE IF array.ok THEN array.val
                ELSE PyNone

C27_Witness ==
    /\ pc = "extract"
    /\ RawContent.s = <<"s", "e", "e", " ", "[">> \o JsonText \o <<"]", " ", "o", "k">>
    /\ OnlySpansDecode
    /\ SpanDecoding("[", "]").val = PyList(<<PyDict(<<<<"a">>>>, <<PyInt(<<"1">>)>>)>>)
    /\ normalized = PyDict(<<<<"a">>>>, <<PyInt(<<"1">>)>>)

(***************************************************************************)
(* The summary and the requests it is taken from, checked under            *)
(* SpecExtract.                                                            *)
(***************************************************************************)
\* the keys of the summary whose values were taken from assistant turns: a
\* tool-result turn, when one was recorded, sets the tool_name itself
TakenFromRequests ==
    (tool_metadata.has \cap {"tool_args", "tool_call_id"})
    \cup (IF "tool_response_content" \in tool_metadata.has THEN {}
          ELSE tool_metadata.has \cap {"tool_name"})

\* C28: the summary describes one invocation: the tool_args, the
\* tool_call_id and, when no tool-result turn gave the name, the tool_name
\* it holds are those of one and the same request of the turn sequence,
\* also when several assistant turns carry requests and when no tool-result
\* turn or tool_call_id pairs them
C28_SummaryDescribesOneRequest ==
    pc = "extracted" =>
        \/ TakenFromRequests = {}
        \/ \E c \in RequestsIn(messages, 1..Len(messages)) :
              /\ "tool_args" \in TakenFromRequests => tool_metadata.tool_args = c.args
              /\ "tool_call_id" \in TakenFromRequests => tool_metadata.tool_call_id = c.id
              /\ "tool_name" \in TakenFromRequests => tool_metadata.tool_name = c.name

\* C29: when the tool-result turn carries no tool name and the request it
\* answers has one, the tool_name of the summary is the name of that
\* request; the name of the tool-result turn is recorded only if it has one
C29_NameFallsBackToRequest ==
    (pc = "extracted" /\ PairedTurns /\ messages[Len(messages)].name = None
        /\ TruthyId(RequestX.name))
    => tool_metadata.tool_name = RequestX.name

(***************************************************************************)
(* Properties of the streaming run, checked under SpecStream.              *)
(***************************************************************************)
\* the type a consumer reads from an emitted line
LineType(line) == DictGet(json_loads(line).val, TYPE).s

LinesOfType(type) == {i \in 1..Len(emitted) : LineType(emitted[i]) = type}

\* C30: every run of the stream, whether the decision, the tool call or the
\* answer stream succeeds or raises, emits exactly one stream_end line, and
\* it is the last line; after a failure exactly one error line is emitted,
\* just before it, and no json_data or text_chunk line follows an error
\* line; without a failure no error line is emitted
C30_StreamEndsOnce ==
    /\ \A i \in 1..Len(emitted) : json_loads(emitted[i]).ok
    /\ \A i \in LinesOfType(STREAM_END) : i = Len(emitted) /\ pc = "closed"
    /\ \A i \in LinesOfType(ERROR) :
          /\ raised
          /\ \A j \in (i + 1)..Len(emitted) : LineType(emitted[j]) = STREAM_END
    /\ pc = "closed" =>
          /\ LinesOfType(STREAM_END) = {Len(emitted)}
          /\ LinesOfType(ERROR) = IF raised THEN {Len(emitted) - 1} ELSE {}

C30_Witness ==
    /\ pc = "closed"
    /\ raised
    /\ Len(emitted) = 3
    /\ LineType(emitted[1]) = TEXT_CHUNK
    /\ LineType(emitted[2]) = ERROR
    /\ LineType(emitted[3]) = STREAM_END

====
